---- MODULE Spec2Model ----
(***************************************************************************)
(* The MusicService operator: the reconcile entry point                    *)
(* (internal/controller), the application and database reconcilers         *)
(* (internal/reconciler), the resource builder (internal/builder) and the  *)
(* status manager (internal/status), over a state store that holds the     *)
(* parents (MusicService objects) and their children by kind and name.     *)
(*                                                                         *)
(* A name is the sequence of its '-'-separated tokens: "ms-db-master" is   *)
(* <<"ms", "db", "master">>.  ms.Name + "-db-master" is concatenation, and *)
(* strings.HasPrefix(name, prefix + "-") is the proper-prefix relation on   *)
(* token sequences (no token holds a '-').                                 *)
(*                                                                         *)
(* An optional (pointer) field is <<>> when nil and <<v>> when set.        *)
(***************************************************************************)
EXTENDS Integers, Sequences, FiniteSets, TLC

VARIABLES
    parents,    \* MusicService objects: name -> [generation, deleting, finalizer, spec, status]
    sts,        \* StatefulSets: name -> [owner, spec, status]
    svc,        \* Services: name -> [owner, spec]
    hpa,        \* HorizontalPodAutoscalers: name -> [owner, spec]
    pvc,        \* PersistentVolumeClaims: name -> [storage, bound]
    secret,     \* Secrets: name -> [owner, data]
    clock,      \* the value time.Now() returns
    pass        \* the last call: what it was, its client calls, events and result

vars == <<parents, sts, svc, hpa, pvc, secret, clock, pass>>

----------------------------------------------------------------------------
(* Bounds of the model *)

\* generations a parent goes through (each spec change is one generation)
MaxGeneration == 3
\* the largest value of the clock
MaxClock == 2
\* the largest database replica count explored (the schema allows 0..10)
MaxDbReplicas == 2
\* the largest application replica count explored (the schema allows 1..100)
MaxAppReplicas == 2
\* volume claims the StatefulSet controller creates per workload (ordinals 0..MaxOrdinal-1)
MaxOrdinal == 1
\* the client calls of a pass among which one may be made to fail
MaxCalls == 28

----------------------------------------------------------------------------
(* Optional values, names, quantities *)

Nil == <<>>
Some(v) == <<v>>
IsSet(o) == o # <<>>
Val(o) == o[1]

\* strings.HasPrefix(name, prefix) where prefix ends with "-"
HasPrefix(name, prefix) ==
    /\ Len(prefix) <= Len(name)
    /\ SubSeq(name, 1, Len(prefix)) = prefix

\* The sizes a spec may declare, and resource.ParseQuantity on them, in Mi.
\* "1024Mi" and "1Gi" are the same quantity.
QuantityValue ==
    [s \in {"1Gi", "1024Mi", "2Gi", "10Gi"} |->
        CASE s = "1Gi" -> 1024
          [] s = "1024Mi" -> 1024
          [] s = "2Gi" -> 2048
          [] s = "10Gi" -> 10240]

ParseQuantity(s) ==
    IF s \in DOMAIN QuantityValue
    THEN [ok |-> TRUE, value |-> QuantityValue[s]]
    ELSE [ok |-> FALSE, value |-> 0]

\* fmt.Sprintf("%d", n)
Itoa(n) == ToString(n)

Range(f) == {f[x] : x \in DOMAIN f}

Remove(f, k) == [x \in DOMAIN f \ {k} |-> f[x]]

Put(f, k, v) == [x \in DOMAIN f \cup {k} |-> IF x = k THEN v ELSE f[x]]

----------------------------------------------------------------------------
(* internal/builder: the desired state of every child, from the parent *)

getLabels(ms, component) ==
    [app |-> ms.name, component |-> component, managedBy |-> "music-operator"]

\* resource.MustParse panics on a malformed quantity
MustParse(s) == ParseQuantity(s).value

MustParsePanics(s) == ~ParseQuantity(s).ok

Probe(initialDelay, period) ==
    Some([command |-> "mysqladmin ping", initialDelaySeconds |-> initialDelay,
          periodSeconds |-> period])

\* BuildAppService that labels the endpoint with the status' observed generation
BuildAppServiceObserved(ms) ==
    [owner |-> ms.name,
     labels |-> [getLabels(ms, "app") EXCEPT !.component = Itoa(ms.status.observedGeneration)],
     spec |-> [selector |-> [app |-> ms.name, component |-> "music-service"],
               ports |-> <<[name |-> "http", port |-> ms.spec.port, targetPort |-> 80]>>,
               clusterIP |-> "",
               publishNotReadyAddresses |-> FALSE]]

BuildAppService(ms) ==
    [owner |-> ms.name,
     labels |-> getLabels(ms, "app"),
     spec |-> [selector |-> [app |-> ms.name, component |-> "music-service"],
               ports |-> <<[name |-> "http", port |-> ms.spec.port, targetPort |-> 80]>>,
               clusterIP |-> "",
               publishNotReadyAddresses |-> FALSE]]

BuildAppStatefulSetPanics(ms) == MustParsePanics(ms.spec.storage.size)

BuildAppStatefulSet(ms) ==
    LET podLabels == [app |-> ms.name, component |-> "music-service"]
        resources == ms.spec.resources
        storageSize == MustParse(ms.spec.storage.size)
    IN  [owner |-> ms.name,
         labels |-> getLabels(ms, "app"),
         spec |-> [replicas |-> ms.spec.replicas,
                   serviceName |-> ms.name,
                   selector |-> podLabels,
                   template |->
                       [labels |-> podLabels,
                        initContainers |-> <<>>,
                        containers |->
                            <<[name |-> "music-service",
                               image |-> ms.spec.image,
                               resources |-> resources,
                               ports |-> <<[name |-> "http", containerPort |-> 80]>>,
                               env |-> <<<<"STREAMING_BITRATE", ms.spec.streaming.bitrate>>,
                                         <<"MAX_CONNECTIONS",
                                           Itoa(ms.spec.streaming.maxConnections)>>>>,
                               volumeMounts |-> <<"music-data">>,
                               readinessProbe |-> Nil,
                               livenessProbe |-> Nil]>>,
                        volumes |-> <<>>],
                   volumeClaimTemplates |->
                       <<[name |-> "music-data", storage |-> Some(storageSize)]>>],
         status |-> [readyReplicas |-> 0]]

replicationSecretName(ms) == ms.name \o <<"db", "replication">>

buildDatabaseConfigPanics(ms) ==
    /\ IsSet(ms.spec.database)
    /\ IsSet(Val(ms.spec.database).storage)
    /\ MustParsePanics(Val(Val(ms.spec.database).storage).size)

buildDatabaseConfig(ms) ==
    LET def == [image |-> "mariadb:10.11",
                storageSize |-> MustParse("10Gi"),
                rootPassword |-> "rootpass",
                replicas |-> 0,
                masterHost |-> ms.name \o <<"db", "master">>,
                replicationEnabled |-> TRUE,
                replicationGTID |-> TRUE,
                replicationSecret |-> replicationSecretName(ms)]
    IN  IF ~IsSet(ms.spec.database) THEN def
        ELSE LET db == Val(ms.spec.database) IN
             [def EXCEPT
                !.replicas = db.replicas,
                !.image = IF db.image # "" THEN db.image ELSE @,
                !.storageSize = IF IsSet(db.storage) THEN MustParse(Val(db.storage).size) ELSE @,
                !.rootPassword = IF db.rootPassword # "" THEN db.rootPassword ELSE @,
                !.replicationEnabled =
                    IF IsSet(db.replication) /\ IsSet(Val(db.replication).enabled)
                    THEN Val(Val(db.replication).enabled) ELSE @,
                !.replicationGTID =
                    IF IsSet(db.replication) /\ IsSet(Val(db.replication).gtid)
                    THEN Val(Val(db.replication).gtid) ELSE @]

\* the main database container, shared by the three database workloads
MariaDBContainer(config, env, ports) ==
    [name |-> "mariadb",
     image |-> config.image,
     resources |-> Nil,
     ports |-> ports,
     env |-> env,
     volumeMounts |-> <<"db-data", "db-config">>,
     readinessProbe |-> Probe(10, 10),
     livenessProbe |-> Probe(30, 20)]

InitContainer(name, config, script) ==
    [name |-> name, image |-> config.image, command |-> script,
     volumeMounts |-> <<"db-config">>]

MysqlPort == [name |-> "mysql", containerPort |-> 3306]

BuildDatabaseMasterStatefulSet(ms) ==
    LET podLabels == [app |-> ms.name, component |-> "db-master"]
        config == buildDatabaseConfig(ms)
        replicas == 1
    IN  [owner |-> ms.name,
         labels |-> getLabels(ms, "db-master"),
         spec |-> [replicas |-> replicas,
                   serviceName |-> ms.name \o <<"db", "master">>,
                   selector |-> podLabels,
                   template |->
                       [labels |-> podLabels,
                        initContainers |->
                            <<InitContainer("init-db-config", config, "masterConfigScript")>>,
                        containers |->
                            <<MariaDBContainer(config,
                                <<<<"MYSQL_ROOT_PASSWORD", config.rootPassword>>,
                                  <<"MYSQL_DATABASE", "musicdb">>>>,
                                <<MysqlPort>>)>>,
                        volumes |-> <<"db-config">>],
                   volumeClaimTemplates |->
                       <<[name |-> "db-data", storage |-> Some(config.storageSize)]>>],
         status |-> [readyReplicas |-> 0]]

buildReplicaSetupScript(masterHost) == <<"replicaSetupScript", masterHost>>

buildReplicaSetupContainer(config, script) ==
    IF ~config.replicationEnabled THEN <<>>
    ELSE <<[name |-> "replication-setup",
            image |-> config.image,
            resources |-> Nil,
            ports |-> <<>>,
            env |-> <<<<"MYSQL_ROOT_PASSWORD", config.rootPassword>>,
                      <<"REPLICATION_USER", config.replicationSecret, "username">>,
                      <<"REPLICATION_PASSWORD", config.replicationSecret, "password">>>>,
            volumeMounts |-> <<>>,
            readinessProbe |-> Nil,
            livenessProbe |-> Nil,
            command |-> script]>>

BuildDatabaseReplicaStatefulSet(ms) ==
    LET podLabels == [app |-> ms.name, component |-> "db-replica"]
        config == buildDatabaseConfig(ms)
        replicationSetupScript == buildReplicaSetupScript(config.masterHost)
        baseEnv == <<<<"MYSQL_ROOT_PASSWORD", config.rootPassword>>,
                     <<"MYSQL_DATABASE", "musicdb">>>>
        replicaEnv ==
            IF config.replicationEnabled
            THEN baseEnv \o <<<<"REPLICATION_USER", config.replicationSecret, "username">>,
                              <<"REPLICATION_PASSWORD", config.replicationSecret, "password">>>>
            ELSE baseEnv
    IN  [owner |-> ms.name,
         labels |-> getLabels(ms, "db-replica"),
         spec |-> [replicas |-> config.replicas,
                   serviceName |-> ms.name \o <<"db", "replica">>,
                   selector |-> podLabels,
                   template |->
                       [labels |-> podLabels,
                        initContainers |->
                            <<InitContainer("init-db-config", config, "replicaConfigScript")>>,
                        containers |->
                            <<MariaDBContainer(config, replicaEnv, <<MysqlPort>>)>>
                            \o buildReplicaSetupContainer(config, replicationSetupScript),
                        volumes |-> <<"db-config">>],
                   volumeClaimTemplates |->
                       <<[name |-> "db-data", storage |-> Some(config.storageSize)]>>],
         status |-> [readyReplicas |-> 0]]

BuildDatabaseMasterService(ms) ==
    [owner |-> ms.name,
     labels |-> getLabels(ms, "db-master"),
     spec |-> [selector |-> [app |-> ms.name, component |-> "db-master"],
               ports |-> <<[name |-> "mysql", port |-> 3306, targetPort |-> 0]>>,
               clusterIP |-> "None",
               publishNotReadyAddresses |-> FALSE]]

BuildDatabaseReadService(ms) ==
    [owner |-> ms.name,
     labels |-> getLabels(ms, "db-read"),
     spec |-> [selector |-> [app |-> ms.name, component |-> "db-replica"],
               ports |-> <<[name |-> "mysql", port |-> 3306, targetPort |-> 0]>>,
               clusterIP |-> "",
               publishNotReadyAddresses |-> FALSE]]

buildResourceMetric(resourceName, targetUtilization) ==
    [type |-> "Resource", name |-> resourceName, averageUtilization |-> targetUtilization]

AutoscalerMetrics(autoscaling) ==
    <<buildResourceMetric("cpu", autoscaling.targetCPUUtilizationPercentage)>>
    \o (IF IsSet(autoscaling.targetMemoryUtilizationPercentage)
        THEN <<buildResourceMetric("memory",
                                   Val(autoscaling.targetMemoryUtilizationPercentage))>>
        ELSE <<>>)

BuildAutoscaler(ms) ==
    [owner |-> ms.name,
     labels |-> getLabels(ms, "autoscaler"),
     spec |-> [scaleTargetRef |-> ms.name,
               minReplicas |-> Some(Val(ms.spec.autoscaling).minReplicas),
               maxReplicas |-> Val(ms.spec.autoscaling).maxReplicas,
               metrics |-> AutoscalerMetrics(Val(ms.spec.autoscaling))]]

BuildDatabaseReplicaAutoscaler(ms) ==
    LET autoscaling == Val(Val(ms.spec.database).autoscaling)
    IN  [owner |-> ms.name,
         labels |-> getLabels(ms, "db-autoscaler"),
         spec |-> [scaleTargetRef |-> ms.name \o <<"db", "replica">>,
                   minReplicas |-> Some(autoscaling.minReplicas),
                   maxReplicas |-> autoscaling.maxReplicas,
                   metrics |-> AutoscalerMetrics(autoscaling)]]

----------------------------------------------------------------------------
(* The state store as one reconcile pass sees it.  A world w carries the    *)
(* parent object the pass holds in memory (w.ms), the store, the clock and  *)
(* the record of the pass: its client calls in order (w.log), the events it *)
(* recorded, and the error of the step that failed (w.err).  The client     *)
(* call number w.failAt fails (0: none does).                               *)

World(ms, failAt, pw) ==
    [ms |-> ms, parents |-> parents, sts |-> sts, svc |-> svc, hpa |-> hpa,
     pvc |-> pvc, secret |-> secret, now |-> clock,
     log |-> <<>>, events |-> <<>>, calls |-> 0, failAt |-> failAt, pw |-> pw,
     err |-> Nil, panic |-> FALSE, reason |-> "", requeueAfter |-> 0,
     stepsFrom |-> 0, stepsTo |-> 0]

\* whether the next client call succeeds
Ok(w) == w.calls + 1 # w.failAt

Call(w, verb, kind, name) ==
    [w EXCEPT !.calls = @ + 1,
              !.log = Append(@, [verb |-> verb, kind |-> kind, name |-> name, ok |-> Ok(w)])]

\* err.Error() of a failed client call
ErrorOf(verb, kind) == <<verb, kind, "failed">>

Fail(w, verb, kind, name) ==
    [Call(w, verb, kind, name) EXCEPT !.err = Some(ErrorOf(verb, kind))]

Failed(w) == IsSet(w.err) \/ w.panic

Panic(w) == [w EXCEPT !.panic = TRUE]

Exists(w, kind, name) == name \in DOMAIN w[kind]

\* client.Create, client.Update, client.Delete on a child
Create(w, kind, name, obj) ==
    IF ~Ok(w) THEN Fail(w, "create", kind, name)
    ELSE [Call(w, "create", kind, name) EXCEPT ![kind] = Put(@, name, obj)]

Update(w, kind, name, obj) ==
    IF ~Ok(w) THEN Fail(w, "update", kind, name)
    ELSE [Call(w, "update", kind, name) EXCEPT ![kind] = Put(@, name, obj)]

Delete(w, kind, name) ==
    IF ~Ok(w) THEN Fail(w, "delete", kind, name)
    ELSE [Call(w, "delete", kind, name) EXCEPT ![kind] = Remove(@, name)]

\* client.Status().Update(ctx, ms): the status the pass holds replaces the stored one
StatusUpdate(w) ==
    IF ~Ok(w) THEN Fail(w, "status", "parent", w.ms.name)
    ELSE [Call(w, "status", "parent", w.ms.name) EXCEPT
             !.parents = [@ EXCEPT ![w.ms.name].status = w.ms.status]]

\* r.Update(ctx, musicService): metadata and spec of the parent; removing the
\* finalizer of a parent pending deletion lets the store drop the parent, and
\* the children it owns go with it (cascade).  Volume claims have no owner.
Owned(f, p) == {n \in DOMAIN f : f[n].owner = p}

Cascade(w, p) ==
    [w EXCEPT !.parents = Remove(@, p),
              !.sts = [n \in DOMAIN @ \ Owned(@, p) |-> @[n]],
              !.svc = [n \in DOMAIN @ \ Owned(@, p) |-> @[n]],
              !.hpa = [n \in DOMAIN @ \ Owned(@, p) |-> @[n]],
              !.secret = [n \in DOMAIN @ \ Owned(@, p) |-> @[n]]]

ParentUpdate(w) ==
    IF ~Ok(w) THEN Fail(w, "update", "parent", w.ms.name)
    ELSE LET w1 == [Call(w, "update", "parent", w.ms.name) EXCEPT
                       !.parents = [@ EXCEPT ![w.ms.name].finalizer = w.ms.finalizer]]
         IN  IF w.ms.deleting /\ ~w.ms.finalizer THEN Cascade(w1, w.ms.name) ELSE w1

----------------------------------------------------------------------------
(* internal/status: conditions, phase and database status *)

Condition(type, status, generation, reason, message) ==
    [type |-> type, status |-> status, observedGeneration |-> generation,
     reason |-> reason, message |-> message, lastTransitionTime |-> 0]

FirstIndex(conditions, type) ==
    LET idx == {i \in 1..Len(conditions) : conditions[i].type = type}
    IN  IF idx = {} THEN 0 ELSE CHOOSE i \in idx : \A j \in idx : i <= j

\* setCondition that appends whether or not the type is stored
setConditionAppending(conditions, condition, now) ==
    Append(conditions, IF condition.lastTransitionTime = 0
                       THEN [condition EXCEPT !.lastTransitionTime = now]
                       ELSE condition)

\* setCondition that stamps the current time on every replacement
setConditionAlwaysNow(conditions, condition, now) ==
    LET stamped == IF condition.lastTransitionTime = 0
                   THEN [condition EXCEPT !.lastTransitionTime = now]
                   ELSE condition
        i == FirstIndex(conditions, condition.type)
    IN  IF i = 0 THEN Append(conditions, stamped)
        ELSE [conditions EXCEPT ![i] = [stamped EXCEPT !.lastTransitionTime = now]]

\* setCondition adds the condition, or replaces the first one of its type;
\* lastTransitionTime zero means not set
setCondition(conditions, condition, now) ==
    LET stamped == IF condition.lastTransitionTime = 0
                   THEN [condition EXCEPT !.lastTransitionTime = now]
                   ELSE condition
        i == FirstIndex(conditions, condition.type)
    IN  IF i = 0 THEN Append(conditions, stamped)
        ELSE [conditions EXCEPT ![i] =
                 [stamped EXCEPT !.lastTransitionTime =
                     IF conditions[i].status # condition.status
                     THEN now
                     ELSE conditions[i].lastTransitionTime]]

\* setCondition(&ms.Status.Conditions, ...) on the parent the pass holds
SetCond(w, type, status, reason, message) ==
    [w EXCEPT !.ms.status.conditions =
        setCondition(@, Condition(type, status, w.ms.generation, reason, message), w.now)]

storageRequestFromStatefulSet(obj) ==
    IF Len(obj.spec.volumeClaimTemplates) = 0 THEN Nil
    ELSE obj.spec.volumeClaimTemplates[1].storage

\* fmt.Sprintf("%s-%s-", claimName, appName)
ClaimPrefix(claimName, appName) == claimName \o appName

\* the claims List returns that carry the prefix, and the prefix is followed by "-"
PVCsByPrefix(w, claimName, appName) ==
    {n \in DOMAIN w.pvc :
        /\ HasPrefix(n, ClaimPrefix(claimName, appName))
        /\ Len(n) > Len(ClaimPrefix(claimName, appName))}

\* UpdateReconciled that leaves lastError as it finds it
UpdateReconciledKeepingError(w) ==
    LET w1 == SetCond(w, "Reconciled", "True", "ReconcileSuccess",
                      <<"Successfully reconciled">>)
        w2 == [w1 EXCEPT !.ms.status.lastReconcileTime = w.now]
    IN  StatusUpdate(w2)

UpdateReconciled(w) ==
    LET w1 == SetCond(w, "Reconciled", "True", "ReconcileSuccess",
                      <<"Successfully reconciled">>)
        w2 == [w1 EXCEPT !.ms.status.lastReconcileTime = w.now,
                         !.ms.status.lastError = <<>>]
    IN  StatusUpdate(w2)

UpdateError(w, reason, message) ==
    LET w1 == [w EXCEPT !.ms.status.phase = "Failed",
                        !.ms.status.lastError = message,
                        !.ms.status.lastReconcileTime = w.now]
        w2 == SetCond(w1, "Reconciled", "False", reason, message)
    IN  StatusUpdate(w2)

updateStorageWarnings(w, obj, claimName, appName, desiredSize, conditionType) ==
    LET current == storageRequestFromStatefulSet(obj)
        desired == ParseQuantity(desiredSize)
        shrink == /\ IsSet(current) /\ desiredSize # ""
                  /\ desired.ok /\ desired.value < Val(current)
        listed == Call(w, "list", "pvc", ClaimPrefix(claimName, appName))
        unbound == /\ Ok(w)
                   /\ \E n \in PVCsByPrefix(w, claimName, appName) : ~w.pvc[n].bound
    IN  IF shrink
        THEN SetCond(w, conditionType, "False", "ShrinkNotSupported",
                     <<"Requested storage size is smaller than current PVC size">>)
        ELSE IF unbound
        THEN SetCond(listed, conditionType, "False", "PVCNotBound",
                     <<"One or more PVCs are not bound yet">>)
        ELSE SetCond(listed, conditionType, "True", "StorageHealthy",
                     <<"Storage requests are within expected bounds">>)

\* AppPhase with the two counts of the Progressing message exchanged
AppPhaseSwapped(w, ready, declared) ==
    IF ready = 0
    THEN SetCond([w EXCEPT !.ms.status.phase = "Pending"],
                 "Available", "False", "PodsNotReady", <<"Waiting for pods to be ready">>)
    ELSE IF ready < declared
    THEN SetCond([w EXCEPT !.ms.status.phase = "Progressing"],
                 "Available", "False", "PodsProgressing",
                 <<"Waiting for pods: ", Itoa(declared), "/", Itoa(ready), " ready">>)
    ELSE SetCond([w EXCEPT !.ms.status.phase = "Available"],
                 "Available", "True", "PodsReady", <<"All replicas are ready">>)

\* the phase and the Available condition, from the workload's ready and declared counts
AppPhase(w, ready, declared) ==
    IF ready = 0
    THEN SetCond([w EXCEPT !.ms.status.phase = "Pending"],
                 "Available", "False", "PodsNotReady", <<"Waiting for pods to be ready">>)
    ELSE IF ready < declared
    THEN SetCond([w EXCEPT !.ms.status.phase = "Progressing"],
                 "Available", "False", "PodsProgressing",
                 <<"Waiting for pods: ", Itoa(ready), "/", Itoa(declared), " ready">>)
    ELSE SetCond([w EXCEPT !.ms.status.phase = "Available"],
                 "Available", "True", "PodsReady", <<"All replicas are ready">>)

UpdateFromAppStatefulSet(w, obj) ==
    LET w1 == [w EXCEPT !.ms.status.readyReplicas = obj.status.readyReplicas,
                        !.ms.status.desiredReplicas = obj.spec.replicas,
                        !.ms.status.observedGeneration = w.ms.generation]
        w2 == AppPhase(w1, obj.status.readyReplicas, obj.spec.replicas)
        w3 == updateStorageWarnings(w2, obj, <<"music", "data">>, w.ms.name,
                                    w.ms.spec.storage.size, "StorageWarningApp")
    IN  StatusUpdate(w3)

EmptyDatabaseStatus ==
    [phase |-> "", masterReady |-> FALSE, replicasReady |-> 0,
     replicaEverCreated |-> FALSE, replicaLastSeen |-> 0,
     replicaDeletionDetected |-> FALSE, replicationReady |-> FALSE]

\* EnsureDatabaseStatus that starts every pass from an empty database status
EnsureDatabaseStatusFresh(w) ==
    [w EXCEPT !.ms.status.database = Some(EmptyDatabaseStatus)]

\* if ms.Status.Database == nil { ms.Status.Database = &DatabaseStatus{} }
EnsureDatabaseStatus(w) ==
    IF IsSet(w.ms.status.database) THEN w
    ELSE [w EXCEPT !.ms.status.database = Some(EmptyDatabaseStatus)]

\* UpdateDatabase, the master part: a Get that fails in any way is skipped
UpdateDatabaseMaster(w) ==
    LET name == w.ms.name \o <<"db", "master">>
        w1 == Call(w, "get", "sts", name)
    IN  IF ~Ok(w) \/ ~Exists(w, "sts", name) THEN w1
        ELSE LET obj == w.sts[name]
                 ready == obj.status.readyReplicas > 0
                 w2 == [w1 EXCEPT !.ms.status.database[1].masterReady = ready,
                                  !.ms.status.database[1].phase =
                                      IF ready THEN "Ready" ELSE "Pending"]
                 storage == Val(w.ms.spec.database).storage
             IN  IF IsSet(storage)
                 THEN updateStorageWarnings(w2, obj, <<"db", "data">>, name,
                                            Val(storage).size, "StorageWarningDatabase")
                 ELSE w2

\* UpdateDatabaseReplica that reports a deletion whenever the workload is absent
UpdateDatabaseReplicaUnguarded(w) ==
    LET name == w.ms.name \o <<"db", "replica">>
        w1 == Call(w, "get", "sts", name)
    IN  IF Val(w.ms.spec.database).replicas <= 0 THEN w
        ELSE IF ~Ok(w) THEN w1
        ELSE IF Exists(w, "sts", name)
        THEN LET obj == w.sts[name]
                 w2 == [w1 EXCEPT
                          !.ms.status.database[1].replicasReady = obj.status.readyReplicas,
                          !.ms.status.database[1].replicaEverCreated = TRUE,
                          !.ms.status.database[1].replicaDeletionDetected = FALSE,
                          !.ms.status.database[1].replicaLastSeen = w.now,
                          !.ms.status.database[1].replicationReady =
                              obj.status.readyReplicas > 0]
             IN  SetCond(w2, "DatabaseReplicaHistory", "True", "ReplicaObserved",
                         <<"Replica StatefulSet is present">>)
        ELSE IF TRUE
        THEN SetCond([w1 EXCEPT !.ms.status.database[1].replicaDeletionDetected = TRUE],
                     "DatabaseReplicaHistory", "False", "ReplicaDeleted",
                     <<"Replica StatefulSet was deleted after previously existing">>)
        ELSE w1

\* UpdateDatabase, the replica part: present, absent (NotFound), or another error
UpdateDatabaseReplica(w) ==
    LET name == w.ms.name \o <<"db", "replica">>
        w1 == Call(w, "get", "sts", name)
    IN  IF Val(w.ms.spec.database).replicas <= 0 THEN w
        ELSE IF ~Ok(w) THEN w1
        ELSE IF Exists(w, "sts", name)
        THEN LET obj == w.sts[name]
                 w2 == [w1 EXCEPT
                          !.ms.status.database[1].replicasReady = obj.status.readyReplicas,
                          !.ms.status.database[1].replicaEverCreated = TRUE,
                          !.ms.status.database[1].replicaDeletionDetected = FALSE,
                          !.ms.status.database[1].replicaLastSeen = w.now,
                          !.ms.status.database[1].replicationReady =
                              obj.status.readyReplicas > 0]
             IN  SetCond(w2, "DatabaseReplicaHistory", "True", "ReplicaObserved",
                         <<"Replica StatefulSet is present">>)
        ELSE IF Val(w1.ms.status.database).replicaEverCreated
        THEN SetCond([w1 EXCEPT !.ms.status.database[1].replicaDeletionDetected = TRUE],
                     "DatabaseReplicaHistory", "False", "ReplicaDeleted",
                     <<"Replica StatefulSet was deleted after previously existing">>)
        ELSE w1

UpdateDatabase(w) ==
    StatusUpdate(UpdateDatabaseReplica(UpdateDatabaseMaster(EnsureDatabaseStatus(w))))

----------------------------------------------------------------------------
(* internal/reconciler/storage.go: resize in place, or delete and recreate *)

storageUpdatePolicy(storage) ==
    IF storage.updatePolicy = "" THEN "Resize" ELSE storage.updatePolicy

storageSizeChanged(current, desired) ==
    LET currentSize == storageRequestFromStatefulSet(current)
        desiredSize == storageRequestFromStatefulSet(desired)
    IN  /\ IsSet(currentSize)
        /\ IsSet(desiredSize)
        /\ Val(currentSize) # Val(desiredSize)

\* the order in which a loop visits the claims List returned
RECURSIVE InOrder(_)
InOrder(set) ==
    IF set = {} THEN <<>>
    ELSE LET first == CHOOSE n \in set : TRUE
         IN  <<first>> \o InOrder(set \ {first})

\* whether resizePVCs requests the expansion of a claim
NeedsExpansion(claim, desiredSize) ==
    IsSet(claim.storage) /\ ~(Val(claim.storage) >= desiredSize)

RECURSIVE ResizeEach(_, _, _)
ResizeEach(w, names, desiredSize) ==
    IF names = <<>> \/ Failed(w) THEN w
    ELSE LET n == Head(names)
             claim == w.pvc[n]
         IN  IF NeedsExpansion(claim, desiredSize)
             THEN ResizeEach(Update(w, "pvc", n, [claim EXCEPT !.storage = Some(desiredSize)]),
                             Tail(names), desiredSize)
             ELSE ResizeEach(w, Tail(names), desiredSize)

resizePVCs(w, claimName, appName, desired) ==
    LET desiredSize == storageRequestFromStatefulSet(desired)
    IN  IF ~IsSet(desiredSize) THEN w
        ELSE IF ~Ok(w) THEN Fail(w, "list", "pvc", ClaimPrefix(claimName, appName))
        ELSE ResizeEach(Call(w, "list", "pvc", ClaimPrefix(claimName, appName)),
                        InOrder(PVCsByPrefix(w, claimName, appName)), Val(desiredSize))

RECURSIVE DeleteEach(_, _)
DeleteEach(w, names) ==
    IF names = <<>> \/ Failed(w) THEN w
    ELSE DeleteEach(Delete(w, "pvc", Head(names)), Tail(names))

deletePVCsByPrefix(w, claimName, appName) ==
    IF ~Ok(w) THEN Fail(w, "list", "pvc", ClaimPrefix(claimName, appName))
    ELSE DeleteEach(Call(w, "list", "pvc", ClaimPrefix(claimName, appName)),
                    InOrder(PVCsByPrefix(w, claimName, appName)))

recreateStatefulSetStorage(w, stsName, claimName, appName) ==
    LET w1 == Delete(w, "sts", stsName)
    IN  IF Failed(w1) THEN w1 ELSE deletePVCsByPrefix(w1, claimName, appName)

----------------------------------------------------------------------------
(* internal/reconciler/app.go *)

SameContainer(c, d) ==
    /\ c.image = d.image
    /\ c.resources = d.resources
    /\ c.env = d.env
    /\ c.volumeMounts = d.volumeMounts
    /\ c.ports = d.ports
    /\ c.readinessProbe = d.readinessProbe
    /\ c.livenessProbe = d.livenessProbe

\* statefulSetNeedsUpdate comparing the ready count, not the declared count
statefulSetNeedsUpdateByReady(current, desired) ==
    LET cur == current.spec.template
        des == desired.spec.template
    IN  \/ current.status.readyReplicas # desired.spec.replicas
        \/ cur.initContainers # des.initContainers
        \/ cur.volumes # des.volumes
        \/ Len(cur.containers) # Len(des.containers)
        \/ \E i \in 1..Len(cur.containers) : ~SameContainer(cur.containers[i], des.containers[i])

statefulSetNeedsUpdate(current, desired) ==
    LET cur == current.spec.template
        des == desired.spec.template
    IN  \/ current.spec.replicas # desired.spec.replicas
        \/ cur.initContainers # des.initContainers
        \/ cur.volumes # des.volumes
        \/ Len(cur.containers) # Len(des.containers)
        \/ \E i \in 1..Len(cur.containers) : ~SameContainer(cur.containers[i], des.containers[i])

\* The body the three workload reconcilers share: Get; create when absent;
\* otherwise the storage policy on a size change, then the update of the spec
\* when a compared field differs.
ReconcileWorkload(w, name, panics, desired, storage, claimName) ==
    IF Failed(w) THEN w
    ELSE IF ~Ok(w) THEN Fail(w, "get", "sts", name)
    ELSE LET w1 == Call(w, "get", "sts", name) IN
         IF panics THEN Panic(w1)
         ELSE IF ~Exists(w1, "sts", name) THEN Create(w1, "sts", name, desired)
         ELSE LET current == w1.sts[name]
                  storageChanged == storageSizeChanged(current, desired)
                  recreate == storageChanged /\ storageUpdatePolicy(storage) = "Recreate"
                  w2 == IF storageChanged /\ ~recreate
                        THEN resizePVCs(w1, claimName, name, desired)
                        ELSE w1
              IN  IF recreate THEN recreateStatefulSetStorage(w1, name, claimName, name)
                  ELSE IF Failed(w2) THEN w2
                  ELSE IF statefulSetNeedsUpdate(current, desired)
                  THEN Update(w2, "sts", name, [current EXCEPT !.spec = desired.spec])
                  ELSE w2

\* EnsureService that writes the descriptor over an endpoint it finds
EnsureServiceApplying(w, name, desired) ==
    IF Failed(w) THEN w
    ELSE IF ~Ok(w) THEN Fail(w, "get", "svc", name)
    ELSE IF ~Exists(w, "svc", name)
    THEN Create(Call(w, "get", "svc", name), "svc", name, desired)
    ELSE Update(Call(w, "get", "svc", name), "svc", name, desired)

\* get-or-create of one endpoint
EnsureService(w, name, desired) ==
    IF Failed(w) THEN w
    ELSE IF ~Ok(w) THEN Fail(w, "get", "svc", name)
    ELSE IF ~Exists(w, "svc", name)
    THEN Create(Call(w, "get", "svc", name), "svc", name, desired)
    ELSE Call(w, "get", "svc", name)

ReconcileService(w) == EnsureService(w, w.ms.name, BuildAppService(w.ms))

ReconcileStatefulSet(w) ==
    ReconcileWorkload(w, w.ms.name, BuildAppStatefulSetPanics(w.ms),
                      BuildAppStatefulSet(w.ms), w.ms.spec.storage, <<"music", "data">>)

\* autoscalerNeedsUpdate that compares the bounds and not the metrics
autoscalerNeedsUpdateBounds(current, desired) ==
    IF current.spec.maxReplicas # desired.spec.maxReplicas THEN TRUE
    ELSE IF ~IsSet(current.spec.minReplicas) \/ ~IsSet(desired.spec.minReplicas)
    THEN current.spec.minReplicas # desired.spec.minReplicas
    ELSE Val(current.spec.minReplicas) # Val(desired.spec.minReplicas)

autoscalerNeedsUpdate(current, desired) ==
    IF current.spec.maxReplicas # desired.spec.maxReplicas THEN TRUE
    ELSE IF ~IsSet(current.spec.minReplicas) \/ ~IsSet(desired.spec.minReplicas)
    THEN current.spec.minReplicas # desired.spec.minReplicas
    ELSE IF Val(current.spec.minReplicas) # Val(desired.spec.minReplicas) THEN TRUE
    ELSE IF Len(current.spec.metrics) # Len(desired.spec.metrics) THEN TRUE
    ELSE \E i \in 1..Len(current.spec.metrics) :
            current.spec.metrics[i] # desired.spec.metrics[i]

deleteAutoscalerIfExists(w) ==
    LET name == w.ms.name \o <<"autoscaler">> IN
    IF Failed(w) THEN w
    ELSE IF ~Ok(w) THEN Fail(w, "get", "hpa", name)
    ELSE LET w1 == Call(w, "get", "hpa", name) IN
         IF ~Exists(w1, "hpa", name) THEN w1 ELSE Delete(w1, "hpa", name)

ReconcileAutoscaler(w) ==
    LET name == w.ms.name \o <<"autoscaler">> IN
    IF Failed(w) THEN w
    ELSE IF ~IsSet(w.ms.spec.autoscaling) THEN deleteAutoscalerIfExists(w)
    ELSE IF ~Ok(w) THEN Fail(w, "get", "hpa", name)
    ELSE LET w1 == Call(w, "get", "hpa", name)
             desiredHpa == BuildAutoscaler(w.ms)
         IN  IF ~Exists(w1, "hpa", name) THEN Create(w1, "hpa", name, desiredHpa)
             ELSE IF autoscalerNeedsUpdate(w1.hpa[name], desiredHpa)
             THEN Update(w1, "hpa", name, [w1.hpa[name] EXCEPT !.spec = desiredHpa.spec])
             ELSE w1

----------------------------------------------------------------------------
(* internal/reconciler/database.go: primary/replica topology *)

databaseStorageSpec(ms) ==
    IF IsSet(ms.spec.database) /\ IsSet(Val(ms.spec.database).storage)
    THEN Val(Val(ms.spec.database).storage)
    ELSE [size |-> "", updatePolicy |-> ""]

replicationEnabled(ms) ==
    IF ~IsSet(ms.spec.database) THEN FALSE
    ELSE IF \/ ~IsSet(Val(ms.spec.database).replication)
            \/ ~IsSet(Val(Val(ms.spec.database).replication).enabled)
    THEN TRUE
    ELSE Val(Val(Val(ms.spec.database).replication).enabled)

\* Backfill that writes a fresh password whether or not one is stored
BackfillOverwrite(data, password) ==
    LET withUser == IF "username" \notin DOMAIN data THEN Put(data, "username", "repl")
                    ELSE data
    IN  Put(withUser, "password", password)

\* the sub-fields ensureReplicationSecret adds to the data of an existing record
Backfill(data, password) ==
    LET withUser == IF "username" \notin DOMAIN data THEN Put(data, "username", "repl")
                    ELSE data
    IN  IF "password" \notin DOMAIN withUser THEN Put(withUser, "password", password)
        ELSE withUser

\* ensureReplicationSecret without the check of replicationEnabled
ensureReplicationSecretUnguarded(w) ==
    LET name == w.ms.name \o <<"db", "replication">> IN
    IF Failed(w) THEN w
    ELSE IF Val(w.ms.spec.database).replicas = 0 THEN w
    ELSE IF ~Ok(w) THEN Fail(w, "get", "secret", name)
    ELSE LET w1 == Call(w, "get", "secret", name) IN
         IF ~Exists(w1, "secret", name)
         THEN Create(w1, "secret", name,
                     [owner |-> w.ms.name,
                      data |-> [k \in {"username", "password"} |->
                                   IF k = "username" THEN "repl" ELSE w.pw]])
         ELSE LET current == w1.secret[name]
                  data == Backfill(current.data, w.pw)
              IN  IF data # current.data
                  THEN Update(w1, "secret", name, [current EXCEPT !.data = data])
                  ELSE w1

ensureReplicationSecret(w) ==
    LET name == w.ms.name \o <<"db", "replication">> IN
    IF Failed(w) THEN w
    ELSE IF ~replicationEnabled(w.ms) \/ Val(w.ms.spec.database).replicas = 0 THEN w
    ELSE IF ~Ok(w) THEN Fail(w, "get", "secret", name)
    ELSE LET w1 == Call(w, "get", "secret", name) IN
         IF ~Exists(w1, "secret", name)
         THEN Create(w1, "secret", name,
                     [owner |-> w.ms.name,
                      data |-> [k \in {"username", "password"} |->
                                   IF k = "username" THEN "repl" ELSE w.pw]])
         ELSE LET current == w1.secret[name]
                  data == Backfill(current.data, w.pw)
              IN  IF data # current.data
                  THEN Update(w1, "secret", name, [current EXCEPT !.data = data])
                  ELSE w1

\* ReconcileMaster that creates the primary when absent and never updates it
ReconcileMasterCreateOnly(w) ==
    LET name == w.ms.name \o <<"db", "master">> IN
    IF Failed(w) THEN w
    ELSE IF ~Ok(w) THEN Fail(w, "get", "sts", name)
    ELSE IF ~Exists(w, "sts", name)
    THEN Create(Call(w, "get", "sts", name), "sts", name, BuildDatabaseMasterStatefulSet(w.ms))
    ELSE Call(w, "get", "sts", name)

ReconcileMaster(w) ==
    ReconcileWorkload(w, w.ms.name \o <<"db", "master">>, buildDatabaseConfigPanics(w.ms),
                      BuildDatabaseMasterStatefulSet(w.ms), databaseStorageSpec(w.ms),
                      <<"db", "data">>)

ReconcileReplicas(w) ==
    IF Failed(w) \/ Val(w.ms.spec.database).replicas = 0 THEN w
    ELSE ReconcileWorkload(ensureReplicationSecret(w), w.ms.name \o <<"db", "replica">>,
                           buildDatabaseConfigPanics(w.ms),
                           BuildDatabaseReplicaStatefulSet(w.ms),
                           databaseStorageSpec(w.ms), <<"db", "data">>)

\* the read endpoint: created when absent; any other failure of its Get is dropped
ReconcileReadService(w) ==
    LET name == w.ms.name \o <<"db", "read">> IN
    IF Failed(w) \/ Val(w.ms.spec.database).replicas <= 0 THEN w
    ELSE IF Ok(w) /\ ~Exists(w, "svc", name)
    THEN Create(Call(w, "get", "svc", name), "svc", name, BuildDatabaseReadService(w.ms))
    ELSE Call(w, "get", "svc", name)

ReconcileServices(w) ==
    ReconcileReadService(
        EnsureService(w, w.ms.name \o <<"db", "master">>, BuildDatabaseMasterService(w.ms)))

ReconcileDatabaseAutoscaler(w) ==
    LET name == w.ms.name \o <<"db", "replica", "autoscaler">>
        db == Val(w.ms.spec.database)
    IN  IF Failed(w) THEN w
        ELSE IF ~IsSet(db.autoscaling) \/ db.replicas = 0 THEN w
        ELSE IF ~Ok(w) THEN Fail(w, "get", "hpa", name)
        ELSE LET w1 == Call(w, "get", "hpa", name)
                 desired == BuildDatabaseReplicaAutoscaler(w.ms)
             IN  IF ~Exists(w1, "hpa", name) THEN Create(w1, "hpa", name, desired)
                 ELSE IF w1.hpa[name].spec # desired.spec
                 THEN Update(w1, "hpa", name, [w1.hpa[name] EXCEPT !.spec = desired.spec])
                 ELSE w1

----------------------------------------------------------------------------
(* The high-availability (Galera) topology.  The controller calls            *)
(* ReconcileGalera and ReconcileGaleraServices and the builder tests name    *)
(* the three descriptors; their bodies are modelled from the design          *)
(* document (sections 4.2, 4.4) and the builder tests.                       *)

\* BuildDatabaseGaleraStatefulSet with as many nodes as declared replicas
BuildDatabaseGaleraStatefulSetReplicasOnly(ms) ==
    LET podLabels == [app |-> ms.name, component |-> "db-galera"]
        config == buildDatabaseConfig(ms)
    IN  [owner |-> ms.name,
         labels |-> getLabels(ms, "db-galera"),
         spec |-> [replicas |-> config.replicas,
                   serviceName |-> ms.name \o <<"db", "galera">>,
                   selector |-> podLabels,
                   template |->
                       [labels |-> podLabels,
                        initContainers |->
                            <<InitContainer("init-galera-config", config, "galeraConfigScript")>>,
                        containers |->
                            <<MariaDBContainer(config,
                                <<<<"MYSQL_ROOT_PASSWORD", config.rootPassword>>,
                                  <<"MYSQL_DATABASE", "musicdb">>>>,
                                <<MysqlPort,
                                  [name |-> "galera-repl", containerPort |-> 4567],
                                  [name |-> "galera-ist", containerPort |-> 4568],
                                  [name |-> "galera-sst", containerPort |-> 4444]>>)>>,
                        volumes |-> <<"db-config">>],
                   volumeClaimTemplates |->
                       <<[name |-> "db-data", storage |-> Some(config.storageSize)]>>],
         status |-> [readyReplicas |-> 0]]

BuildDatabaseGaleraStatefulSet(ms) ==
    LET podLabels == [app |-> ms.name, component |-> "db-galera"]
        config == buildDatabaseConfig(ms)
    IN  [owner |-> ms.name,
         labels |-> getLabels(ms, "db-galera"),
         spec |-> [replicas |-> config.replicas + 1,
                   serviceName |-> ms.name \o <<"db", "galera">>,
                   selector |-> podLabels,
                   template |->
                       [labels |-> podLabels,
                        initContainers |->
                            <<InitContainer("init-galera-config", config, "galeraConfigScript")>>,
                        containers |->
                            <<MariaDBContainer(config,
                                <<<<"MYSQL_ROOT_PASSWORD", config.rootPassword>>,
                                  <<"MYSQL_DATABASE", "musicdb">>>>,
                                <<MysqlPort,
                                  [name |-> "galera-repl", containerPort |-> 4567],
                                  [name |-> "galera-ist", containerPort |-> 4568],
                                  [name |-> "galera-sst", containerPort |-> 4444]>>)>>,
                        volumes |-> <<"db-config">>],
                   volumeClaimTemplates |->
                       <<[name |-> "db-data", storage |-> Some(config.storageSize)]>>],
         status |-> [readyReplicas |-> 0]]

BuildDatabaseGaleraService(ms) ==
    [owner |-> ms.name,
     labels |-> getLabels(ms, "db-galera"),
     spec |-> [selector |-> [app |-> ms.name, component |-> "db-galera"],
               ports |-> <<[name |-> "mysql", port |-> 3306, targetPort |-> 0]>>,
               clusterIP |-> "None",
               publishNotReadyAddresses |-> TRUE]]

BuildDatabaseGaleraPrimaryService(ms) ==
    [owner |-> ms.name,
     labels |-> getLabels(ms, "db-master"),
     spec |-> [selector |-> [app |-> ms.name, component |-> "db-galera"],
               ports |-> <<[name |-> "mysql", port |-> 3306, targetPort |-> 0]>>,
               clusterIP |-> "",
               publishNotReadyAddresses |-> FALSE]]

ReconcileGalera(w) ==
    ReconcileWorkload(w, w.ms.name \o <<"db", "galera">>, buildDatabaseConfigPanics(w.ms),
                      BuildDatabaseGaleraStatefulSet(w.ms), databaseStorageSpec(w.ms),
                      <<"db", "data">>)

ReconcileGaleraServices(w) ==
    EnsureService(
        EnsureService(w, w.ms.name \o <<"db", "galera">>, BuildDatabaseGaleraService(w.ms)),
        w.ms.name \o <<"db", "master">>, BuildDatabaseGaleraPrimaryService(w.ms))

----------------------------------------------------------------------------
(* internal/controller: the reconcile entry point *)

databaseEnabled(ms) == IsSet(ms.spec.database) /\ Val(ms.spec.database).enabled

databaseHAEnabled(ms) ==
    /\ IsSet(ms.spec.database)
    /\ IsSet(Val(ms.spec.database).highAvailability)
    /\ Val(Val(ms.spec.database).highAvailability).enabled

Event(w, reason) == IF Failed(w) THEN w ELSE [w EXCEPT !.events = Append(@, reason)]

\* The controller returns at the first step that fails, with the reason it
\* hands to UpdateError: every step below leaves a failed world as it is, and
\* Step names the reason of the step that failed.
Step(done, reason) ==
    IF IsSet(done.err) /\ done.reason = "" THEN [done EXCEPT !.reason = reason] ELSE done

\* ReconcileTopology that keeps reconciling the primary in high-availability mode
ReconcileTopologyBoth(w) ==
    IF databaseHAEnabled(w.ms)
    THEN Step(ReconcileGaleraServices(
                  Step(ReconcileGalera(Step(ReconcileMaster(w), "DBMasterFailed")),
                       "DBGaleraFailed")),
              "DBGaleraServicesFailed")
    ELSE Step(ReconcileServices(
                  Step(ReconcileReplicas(Step(ReconcileMaster(w), "DBMasterFailed")),
                       "DBReplicasFailed")),
              "DBServicesFailed")

\* the two topologies of the database tier, chosen by highAvailability.enabled
ReconcileTopology(w) ==
    IF databaseHAEnabled(w.ms)
    THEN Step(ReconcileGaleraServices(Step(ReconcileGalera(w), "DBGaleraFailed")),
              "DBGaleraServicesFailed")
    ELSE Step(ReconcileServices(
                  Step(ReconcileReplicas(Step(ReconcileMaster(w), "DBMasterFailed")),
                       "DBReplicasFailed")),
              "DBServicesFailed")

ReconcileDatabase(w) ==
    IF Failed(w) \/ ~databaseEnabled(w.ms) THEN w
    ELSE Step(ReconcileDatabaseAutoscaler(ReconcileTopology(EnsureDatabaseStatus(w))),
              "DBAutoscalerFailed")

\* the steps that create, update and delete children, in the controller's order
ReconcileChildren(w) ==
    ReconcileDatabase(
        Step(ReconcileAutoscaler(
                 Step(ReconcileStatefulSet(Step(ReconcileService(w), "ServiceFailed")),
                      "StatefulSetFailed")),
             "AutoscalerFailed"))

\* "Sync status from StatefulSet": skipped when the Get fails in any way
SyncAppStatus(w) ==
    IF Failed(w) THEN w
    ELSE IF Ok(w) /\ Exists(w, "sts", w.ms.name)
    THEN Event(UpdateFromAppStatefulSet(Call(w, "get", "sts", w.ms.name), w.sts[w.ms.name]),
               "Ready")
    ELSE Call(w, "get", "sts", w.ms.name)

SyncDatabaseStatus(w) ==
    IF Failed(w) \/ ~databaseEnabled(w.ms) THEN w ELSE UpdateDatabase(w)

\* Requeue with the baseline interval only
RequeueBaseline(w) ==
    IF Failed(w) THEN w ELSE [w EXCEPT !.requeueAfter = 30]

\* the requeue interval of a pass that succeeded
Requeue(w) ==
    IF Failed(w) THEN w
    ELSE [w EXCEPT !.requeueAfter =
             IF w.ms.status.readyReplicas < w.ms.spec.replicas THEN 5 ELSE 30]

MarkReconciled(w) == IF Failed(w) THEN w ELSE Requeue(UpdateReconciled(w))

\* after the child steps: a panic ends the pass; an error is reported through
\* UpdateError, whose own error is what the pass returns; otherwise the status
\* is synchronised
Conclude(w) ==
    IF w.panic THEN w
    ELSE IF IsSet(w.err) THEN UpdateError([w EXCEPT !.err = Nil], w.reason, Val(w.err))
    ELSE MarkReconciled(SyncDatabaseStatus(SyncAppStatus(w)))

\* the in-memory status the pass starts from
Observe(w) ==
    [w EXCEPT !.ms.status.observedGeneration = w.ms.generation,
              !.ms.status.desiredReplicas = w.ms.spec.replicas,
              !.stepsFrom = w.calls]

\* the child steps of the pass are the client calls stepsFrom+1 .. stepsTo
StepsDone(w) == [w EXCEPT !.stepsTo = w.calls]

\* the pass on a parent that is not pending deletion and holds the finalizer
ReconcileLive(w) ==
    IF Failed(w) THEN w ELSE Conclude(StepsDone(ReconcileChildren(Observe(w))))

\* EnsureFinalizer that adds the finalizer in memory and never stores it
EnsureFinalizerUnstored(w) ==
    [w EXCEPT !.ms.finalizer = TRUE]

EnsureFinalizer(w) ==
    IF w.ms.finalizer THEN w ELSE ParentUpdate([w EXCEPT !.ms.finalizer = TRUE])

\* ReconcileFetched that skips the deletion branch when the finalizer is absent
ReconcileFetchedUnlessHeld(w) ==
    IF w.ms.deleting /\ w.ms.finalizer
    THEN ParentUpdate(Event([w EXCEPT !.ms.finalizer = FALSE], "Deleting"))
    ELSE ReconcileLive(EnsureFinalizer(w))

\* the pass after the parent was fetched
ReconcileFetched(w) ==
    IF w.ms.deleting
    THEN IF w.ms.finalizer
         THEN ParentUpdate(Event([w EXCEPT !.ms.finalizer = FALSE], "Deleting"))
         ELSE w
    ELSE ReconcileLive(EnsureFinalizer(w))

\* the parent, or the zero object when the store holds none of that name
Fetched(p) ==
    IF p \in DOMAIN parents THEN parents[p]
    ELSE [name |-> p, generation |-> 0, deleting |-> FALSE, finalizer |-> FALSE,
          spec |-> Nil, status |-> Nil]

\* Reconcile(ctx, req): the world at the end of the pass for the parent named p
ReconcileOutcome(p, failAt, pw) ==
    LET w == World(Fetched(p), failAt, pw) IN
    IF ~Ok(w) THEN Fail(w, "get", "parent", p)
    ELSE IF p \notin DOMAIN parents THEN Call(w, "get", "parent", p)
    ELSE ReconcileFetched(Event(Call(w, "get", "parent", p), "Reconciling"))

\* what a pass leaves for the scheduler and for the record
\* (again: the call before it was a pass for the same parent, with nothing in
\* between; prior: the reason that pass handed to UpdateError, if it did)
PassOf(p, w) ==
    [kind |-> "reconcile", parent |-> p, log |-> w.log, events |-> w.events,
     error |-> IsSet(w.err), panic |-> w.panic, reason |-> w.reason,
     requeueAfter |-> w.requeueAfter,
     again |-> pass.kind = "reconcile" /\ pass.parent = p,
     prior |-> IF pass.kind = "reconcile" /\ pass.parent = p THEN pass.reason ELSE "",
     stepsFrom |-> w.stepsFrom, stepsTo |-> w.stepsTo]

NoPass ==
    [kind |-> "env", parent |-> <<>>, log |-> <<>>, events |-> <<>>,
     error |-> FALSE, panic |-> FALSE, reason |-> "", requeueAfter |-> 0,
     again |-> FALSE, prior |-> "", stepsFrom |-> 0, stepsTo |-> 0]

Commit(p, w) ==
    /\ parents' = w.parents
    /\ sts' = w.sts
    /\ svc' = w.svc
    /\ hpa' = w.hpa
    /\ pvc' = w.pvc
    /\ secret' = w.secret
    /\ pass' = PassOf(p, w)
    /\ UNCHANGED clock

\* the passwords generatePassword may return
Passwords == {"pw1", "pw2"}

\* The scheduler runs one pass for the parent named p to completion.
Reconcile(p) ==
    \E pw \in Passwords : \E w \in {ReconcileOutcome(p, 0, pw)} : Commit(p, w)

\* A pass in which one client call fails.
ReconcileFailing(p) ==
    \E pw \in Passwords : \E failAt \in 1..MaxCalls :
        \E w \in {ReconcileOutcome(p, failAt, pw)} :
            /\ \E i \in 1..Len(w.log) : ~w.log[i].ok
            /\ Commit(p, w)

----------------------------------------------------------------------------
(* api/v1: the objects a user may submit *)

Images == {"music:v1", "music:v2"}

Sizes == {"1Gi", "2Gi"}

Policies == {"", "Resize", "Recreate"}

\* AutoscalingSpec with the CPU target only
AutoscalingOf(min, max) ==
    [minReplicas |-> min, maxReplicas |-> max,
     targetCPUUtilizationPercentage |-> 70,
     targetMemoryUtilizationPercentage |-> Nil]

\* DatabaseSpec
DatabaseOf(replicas, ha, storage) ==
    [enabled |-> TRUE, replicas |-> replicas, image |-> "", storage |-> storage,
     rootPassword |-> "", replication |-> Nil,
     highAvailability |-> IF ha THEN Some([enabled |-> TRUE]) ELSE Nil,
     autoscaling |-> Nil]

\* MusicServiceSpec
SpecOf(size, policy, database) ==
    [replicas |-> 1, image |-> "music:v1", port |-> 8080,
     storage |-> [size |-> size, updatePolicy |-> policy],
     streaming |-> [bitrate |-> "320k", maxConnections |-> 100],
     resources |-> Nil, autoscaling |-> Nil, database |-> database]

\* MusicServiceStatus of an object no pass has handled yet
EmptyStatus ==
    [observedGeneration |-> 0, desiredReplicas |-> 0, readyReplicas |-> 0,
     phase |-> "", lastReconcileTime |-> 0, lastError |-> <<>>,
     conditions |-> <<>>, database |-> Nil]

\* a MusicService as the API server stores it right after its creation
NewParent(name, spec) ==
    [name |-> name, generation |-> 1, deleting |-> FALSE, finalizer |-> FALSE,
     spec |-> spec, status |-> EmptyStatus]

Empty == [n \in {} |-> Nil]

InitStore(objects) ==
    /\ parents = [n \in {o.name : o \in objects} |->
                     CHOOSE o \in objects : o.name = n]
    /\ sts = Empty
    /\ svc = Empty
    /\ hpa = Empty
    /\ pvc = Empty
    /\ secret = Empty
    /\ clock = 1
    /\ pass = NoPass

----------------------------------------------------------------------------
(* The environment: the user, and the cluster's own controllers *)

Env == pass' = NoPass

\* The user replaces the spec of the parent p; the API server counts a generation.
SetSpec(p, spec) ==
    /\ p \in DOMAIN parents
    /\ ~parents[p].deleting
    /\ parents[p].generation < MaxGeneration
    /\ spec # parents[p].spec
    /\ parents' = [parents EXCEPT ![p].spec = spec, ![p].generation = @ + 1]
    /\ Env
    /\ UNCHANGED <<sts, svc, hpa, pvc, secret, clock>>

SetImage(p) ==
    \E image \in Images :
        p \in DOMAIN parents /\ SetSpec(p, [parents[p].spec EXCEPT !.image = image])

Ports == {8080, 9090}

SetPort(p) ==
    \E port \in Ports :
        p \in DOMAIN parents /\ SetSpec(p, [parents[p].spec EXCEPT !.port = port])

SetStorage(p) ==
    \E size \in Sizes : \E policy \in Policies :
        /\ p \in DOMAIN parents
        /\ SetSpec(p, [parents[p].spec EXCEPT
                          !.storage = [size |-> size, updatePolicy |-> policy]])

SetReplicas(p) ==
    \E n \in 1..MaxAppReplicas :
        p \in DOMAIN parents /\ SetSpec(p, [parents[p].spec EXCEPT !.replicas = n])

SetAutoscaling(p) ==
    \E a \in {Nil, Some(AutoscalingOf(1, MaxAppReplicas))} :
        p \in DOMAIN parents /\ SetSpec(p, [parents[p].spec EXCEPT !.autoscaling = a])

\* the database section: topology, replica count and storage
SetDatabase(p) ==
    \E n \in 0..MaxDbReplicas : \E ha \in BOOLEAN :
        /\ p \in DOMAIN parents
        /\ IsSet(parents[p].spec.database)
        /\ SetSpec(p, [parents[p].spec EXCEPT
                          !.database = Some([Val(@) EXCEPT
                              !.replicas = n,
                              !.highAvailability =
                                  IF ha THEN Some([enabled |-> TRUE]) ELSE Nil])])

SetDatabaseStorage(p) ==
    \E size \in Sizes : \E policy \in Policies :
        /\ p \in DOMAIN parents
        /\ IsSet(parents[p].spec.database)
        /\ SetSpec(p, [parents[p].spec EXCEPT
                          !.database = Some([Val(@) EXCEPT
                              !.storage = Some([size |-> size,
                                                updatePolicy |-> policy])])])

\* The StatefulSet controller reports how many pods of a workload are ready.
WorkloadReady ==
    \E n \in DOMAIN sts : \E r \in 0..sts[n].spec.replicas :
        /\ r # sts[n].status.readyReplicas
        /\ sts' = [sts EXCEPT ![n].status.readyReplicas = r]
        /\ Env
        /\ UNCHANGED <<parents, svc, hpa, pvc, secret, clock>>

\* the tokens of a volume claim template's name
ClaimTokens(name) == IF name = "music-data" THEN <<"music", "data">> ELSE <<"db", "data">>

\* <template>-<workload>-<ordinal>
ClaimName(obj, n, ordinal) ==
    ClaimTokens(obj.spec.volumeClaimTemplates[1].name) \o n \o <<Itoa(ordinal)>>

\* The StatefulSet controller creates the volume claim of a pod from the
\* workload's template; the claim is not bound yet.
ClaimProvisioned ==
    \E n \in DOMAIN sts : \E ordinal \in 0..(MaxOrdinal - 1) :
        /\ ordinal < sts[n].spec.replicas
        /\ ClaimName(sts[n], n, ordinal) \notin DOMAIN pvc
        /\ pvc' = Put(pvc, ClaimName(sts[n], n, ordinal),
                      [storage |-> storageRequestFromStatefulSet(sts[n]), bound |-> FALSE])
        /\ Env
        /\ UNCHANGED <<parents, sts, svc, hpa, secret, clock>>

\* The volume controller binds a claim.
ClaimBound ==
    \E c \in DOMAIN pvc :
        /\ ~pvc[c].bound
        /\ pvc' = [pvc EXCEPT ![c].bound = TRUE]
        /\ Env
        /\ UNCHANGED <<parents, sts, svc, hpa, secret, clock>>

\* The horizontal autoscaler scales its target within [minReplicas, maxReplicas].
Autoscale ==
    \E h \in DOMAIN hpa :
        LET target == hpa[h].spec.scaleTargetRef
            min == IF IsSet(hpa[h].spec.minReplicas) THEN Val(hpa[h].spec.minReplicas) ELSE 1
        IN  /\ target \in DOMAIN sts
            /\ \E n \in min..hpa[h].spec.maxReplicas :
                /\ n # sts[target].spec.replicas
                /\ sts' = [sts EXCEPT ![target].spec.replicas = n,
                                      ![target].status.readyReplicas =
                                          IF @ > n THEN n ELSE @]
            /\ Env
            /\ UNCHANGED <<parents, svc, hpa, pvc, secret, clock>>

\* Someone other than the controller and the autoscaler sets the replica count
\* of a workload (kubectl scale).
WorkloadScaled ==
    \E n \in DOMAIN sts : \E r \in 0..MaxAppReplicas :
        /\ r # sts[n].spec.replicas
        /\ sts' = [sts EXCEPT ![n].spec.replicas = r,
                              ![n].status.readyReplicas = IF @ > r THEN r ELSE @]
        /\ Env
        /\ UNCHANGED <<parents, svc, hpa, pvc, secret, clock>>

\* Someone deletes a workload; its volume claims stay.  The record names the
\* workload that went.
WorkloadDeleted ==
    \E n \in DOMAIN sts :
        /\ sts' = Remove(sts, n)
        /\ pass' = [NoPass EXCEPT !.kind = "workloadDeleted", !.parent = n]
        /\ UNCHANGED <<parents, svc, hpa, pvc, secret, clock>>

\* The user deletes the parent: the API server marks it as pending deletion and
\* keeps it while a finalizer (the controller's or another one) holds it.
DeleteParent(p) ==
    /\ p \in DOMAIN parents
    /\ ~parents[p].deleting
    /\ parents' = [parents EXCEPT ![p].deleting = TRUE]
    /\ Env
    /\ UNCHANGED <<sts, svc, hpa, pvc, secret, clock>>

\* The API server drops a parent pending deletion that the controller's
\* finalizer does not hold; the children it owns go with it.
ParentRemoved(p) ==
    /\ p \in DOMAIN parents
    /\ parents[p].deleting
    /\ ~parents[p].finalizer
    /\ parents' = Remove(parents, p)
    /\ sts' = [n \in DOMAIN sts \ Owned(sts, p) |-> sts[n]]
    /\ svc' = [n \in DOMAIN svc \ Owned(svc, p) |-> svc[n]]
    /\ hpa' = [n \in DOMAIN hpa \ Owned(hpa, p) |-> hpa[n]]
    /\ secret' = [n \in DOMAIN secret \ Owned(secret, p) |-> secret[n]]
    /\ Env
    /\ UNCHANGED <<pvc, clock>>

\* Someone removes one sub-field of a secret.
SecretEdited ==
    \E n \in DOMAIN secret : \E k \in DOMAIN secret[n].data :
        /\ secret' = [secret EXCEPT ![n].data = Remove(@, k)]
        /\ Env
        /\ UNCHANGED <<parents, sts, svc, hpa, pvc, clock>>

Tick ==
    /\ clock < MaxClock
    /\ clock' = clock + 1
    /\ Env
    /\ UNCHANGED <<parents, sts, svc, hpa, pvc, secret>>

----------------------------------------------------------------------------
(* The application tier of one parent *)

P1 == <<"ms">>

Init ==
    \E policy \in {"", "Recreate"} : InitStore({NewParent(P1, SpecOf("2Gi", policy, Nil))})

Next ==
    \/ Reconcile(P1)
    \/ SetImage(P1)
    \/ SetStorage(P1)
    \/ SetReplicas(P1)
    \/ SetAutoscaling(P1)
    \/ WorkloadReady
    \/ ClaimProvisioned
    \/ ClaimBound
    \/ Autoscale

Spec == Init /\ [][Next]_vars

----------------------------------------------------------------------------
(* The database tier of one parent: both topologies and the storage policies *)

InitDb ==
    \E n \in 0..MaxDbReplicas : \E ha \in BOOLEAN :
        InitStore({NewParent(P1, SpecOf("2Gi", "", Some(DatabaseOf(n, ha, Nil))))})

NextDb ==
    \/ Reconcile(P1)
    \/ SetDatabase(P1)
    \/ SetDatabaseStorage(P1)
    \/ SecretEdited

SpecDb == InitDb /\ [][NextDb]_vars

----------------------------------------------------------------------------
(* Two parents in one namespace, the name of one extending the name of the   *)
(* other; both under the Recreate policy                                     *)

P2 == <<"ms", "eu">>

InitTwo ==
    InitStore({NewParent(P1, SpecOf("2Gi", "Recreate", Nil)),
               NewParent(P2, SpecOf("2Gi", "Recreate", Nil))})

NextTwo ==
    \/ Reconcile(P1)
    \/ Reconcile(P2)
    \/ SetStorage(P1)
    \/ SetStorage(P2)
    \/ ClaimProvisioned

SpecTwo == InitTwo /\ [][NextTwo]_vars

----------------------------------------------------------------------------
(* setCondition alone, on the condition list of one parent, as the clock runs *)

ConditionTypes == {"Available", "Reconciled"}

ConditionStatuses == {"True", "False", "Unknown"}

ConditionReasons == {"ReasonA", "ReasonB"}

\* one call of setCondition; the caller may have set lastTransitionTime (1) or
\* not (0).  The record of the call keeps its type and status, and
\* whether the type was stored with the same status and another reason.
SetConditionCall ==
    \E type \in ConditionTypes : \E status \in ConditionStatuses :
    \E reason \in ConditionReasons : \E ltt \in 0..1 :
        LET conditions == parents[P1].status.conditions
            i == FirstIndex(conditions, type)
        IN  /\ parents' = [parents EXCEPT ![P1].status.conditions =
                   setCondition(@, [Condition(type, status, parents[P1].generation,
                                              reason, <<reason>>)
                                       EXCEPT !.lastTransitionTime = ltt], clock)]
            /\ pass' = [NoPass EXCEPT
                   !.kind = "setCondition",
                   !.reason = type,
                   !.log = <<[verb |-> "setCondition", kind |-> type,
                              name |-> <<status>>, ok |-> TRUE]>>,
                   !.again = (/\ i # 0
                              /\ conditions[i].status = status
                              /\ conditions[i].reason # reason)]
            /\ UNCHANGED <<sts, svc, hpa, pvc, secret, clock>>

InitCond == InitStore({NewParent(P1, SpecOf("2Gi", "", Nil))})

NextCond ==
    \/ SetConditionCall
    \/ Tick

SpecCond == InitCond /\ [][NextCond]_vars

----------------------------------------------------------------------------
(* Passes in which one client call fails, for both tiers and both topologies *)

InitFail ==
    \E database \in {Nil, Some(DatabaseOf(1, FALSE, Nil)), Some(DatabaseOf(1, TRUE, Nil))} :
        InitStore({NewParent(P1, SpecOf("2Gi", "", database))})

NextFail ==
    \/ Reconcile(P1)
    \/ ReconcileFailing(P1)

SpecFail == InitFail /\ [][NextFail]_vars

----------------------------------------------------------------------------
(* One parent from its creation to its deletion *)

InitDel ==
    \E database \in {Nil, Some(DatabaseOf(1, FALSE, Nil))} :
        InitStore({NewParent(P1, SpecOf("2Gi", "", database))})

NextDel ==
    \/ Reconcile(P1)
    \/ DeleteParent(P1)
    \/ ParentRemoved(P1)
    \/ SetReplicas(P1)
    \/ WorkloadReady

SpecDel == InitDel /\ [][NextDel]_vars

----------------------------------------------------------------------------
(* The database tier while someone else scales its workloads *)

InitScale ==
    \E n \in 0..MaxDbReplicas :
        InitStore({NewParent(P1, SpecOf("2Gi", "", Some(DatabaseOf(n, FALSE, Nil))))})

NextScale ==
    \/ Reconcile(P1)
    \/ SetDatabase(P1)
    \/ WorkloadScaled

SpecScale == InitScale /\ [][NextScale]_vars

----------------------------------------------------------------------------
(* The database tier in primary/replica mode as the status manager observes  *)
(* it: workloads become ready, are deleted by someone, or are recreated      *)

InitObserve ==
    InitStore({NewParent(P1, SpecOf("2Gi", "",
        Some(DatabaseOf(1, FALSE, Some([size |-> "2Gi", updatePolicy |-> "Recreate"])))))})

NextObserve ==
    \/ Reconcile(P1)
    \/ SetDatabaseStorage(P1)
    \/ WorkloadReady
    \/ WorkloadDeleted

SpecObserve == InitObserve /\ [][NextObserve]_vars

----------------------------------------------------------------------------
(* The application tier under storage changes, with passes that may fail.    *)
(* The scheduler keeps running passes (resync), and the StatefulSet          *)
(* controller keeps provisioning the claims of a workload's pods.            *)

InitRecreate == InitStore({NewParent(P1, SpecOf("2Gi", "Recreate", Nil))})

\* the user edits the declared size and keeps the policy
SetStorageSize(p) ==
    \E size \in Sizes :
        /\ p \in DOMAIN parents
        /\ SetSpec(p, [parents[p].spec EXCEPT !.storage.size = size])

NextRecreate ==
    \/ Reconcile(P1)
    \/ ReconcileFailing(P1)
    \/ SetStorageSize(P1)
    \/ ClaimProvisioned

\* a pass without a failure would leave every object and the record as they are
PassIsNoOp(p) ==
    \A pw \in Passwords : \E w \in {ReconcileOutcome(p, 0, pw)} :
        /\ parents = w.parents
        /\ sts = w.sts
        /\ svc = w.svc
        /\ hpa = w.hpa
        /\ pvc = w.pvc
        /\ secret = w.secret
        /\ pass = PassOf(p, w)

\* Weak fairness of the claim provisioning, and weak fairness of the pass
\* without a failure, WF_vars(Reconcile(P1)), written out with its enabling
\* condition as the state predicate ~PassIsNoOp(P1): the resync interval and
\* the watches keep passes running, and failures are transient.
SpecRecreate ==
    /\ InitRecreate
    /\ [][NextRecreate]_vars
    /\ WF_vars(ClaimProvisioned)
    /\ ([]<>PassIsNoOp(P1) \/ []<><<Reconcile(P1)>>_vars)

----------------------------------------------------------------------------
(* Both tiers with volume claims, under the Resize policy: the user edits    *)
(* the port and the size, and a workload may disappear between passes.       *)

InitDrift ==
    InitStore({NewParent(P1, SpecOf("1Gi", "",
        Some([DatabaseOf(1, FALSE, Nil) EXCEPT
                 !.autoscaling = Some(AutoscalingOf(1, MaxDbReplicas))])))})

NextDrift ==
    \/ Reconcile(P1)
    \/ SetPort(P1)
    \/ SetStorageSize(P1)
    \/ ClaimProvisioned
    \/ WorkloadDeleted

SpecDrift == InitDrift /\ [][NextDrift]_vars

----------------------------------------------------------------------------
(* What the API server admits: the size is any non-empty string, and the     *)
(* database section may declare a replica autoscaler in either topology and  *)
(* with any replica count.                                                   *)

\* a size string resource.ParseQuantity rejects
Malformed == "lots"

SubmitSize(p) ==
    \E size \in Sizes \cup {Malformed} :
        /\ p \in DOMAIN parents
        /\ \/ SetSpec(p, [parents[p].spec EXCEPT !.storage.size = size])
           \/ /\ IsSet(parents[p].spec.database)
              /\ SetSpec(p, [parents[p].spec EXCEPT
                                !.database = Some([Val(@) EXCEPT
                                    !.storage = Some([size |-> size,
                                                      updatePolicy |-> ""])])])

SetDatabaseAutoscaling(p) ==
    \E a \in {Nil, Some(AutoscalingOf(1, MaxDbReplicas))} :
        /\ p \in DOMAIN parents
        /\ IsSet(parents[p].spec.database)
        /\ SetSpec(p, [parents[p].spec EXCEPT
                          !.database = Some([Val(@) EXCEPT !.autoscaling = a])])

InitSubmit ==
    \E replication \in {Nil, Some([enabled |-> Some(FALSE), gtid |-> Nil])} :
        InitStore({NewParent(P1, SpecOf("2Gi", "",
            Some([DatabaseOf(1, FALSE, Nil) EXCEPT
                     !.replication = replication,
                     !.autoscaling = Some(AutoscalingOf(1, MaxDbReplicas))])))})

NextSubmit ==
    \/ Reconcile(P1)
    \/ SubmitSize(P1)
    \/ SetDatabase(P1)
    \/ SetDatabaseAutoscaling(P1)

SpecSubmit == InitSubmit /\ [][NextSubmit]_vars

----------------------------------------------------------------------------
(* The application autoscaler: the user sets, edits and removes the          *)
(* autoscaling section, and the autoscaler scales the workload.              *)

SubmitAutoscaling(p) ==
    \E a \in {Nil} \cup
             {Some([minReplicas |-> min, maxReplicas |-> max,
                    targetCPUUtilizationPercentage |-> cpu,
                    targetMemoryUtilizationPercentage |-> memory]) :
                 min \in {1, 2}, max \in {2, 3}, cpu \in {70, 80},
                 memory \in {Nil, Some(75)}} :
        p \in DOMAIN parents /\ SetSpec(p, [parents[p].spec EXCEPT !.autoscaling = a])

InitAutoscale == InitStore({NewParent(P1, SpecOf("2Gi", "", Nil))})

NextAutoscale ==
    \/ Reconcile(P1)
    \/ SubmitAutoscaling(P1)
    \/ Autoscale

SpecAutoscale == InitAutoscale /\ [][NextAutoscale]_vars

----------------------------------------------------------------------------
(* Properties *)

\* the successful calls of a pass that write: to anything, and to an object
\* (a child, or the parent's metadata and spec) as opposed to the parent's status
Writes(log) ==
    {i \in 1..Len(log) : log[i].ok /\ log[i].verb \in {"create", "update", "delete", "status"}}

ObjectWrites(log) ==
    {i \in 1..Len(log) : log[i].ok /\ log[i].verb \in {"create", "update", "delete"}}

Deletes(log) == {i \in 1..Len(log) : log[i].ok /\ log[i].verb = "delete"}

StatusWrites(log) == Writes(log) \ ObjectWrites(log)

\* this step is a pass that follows a pass for the same parent with nothing in between
BackToBack ==
    /\ pass.kind = "reconcile"
    /\ pass'.kind = "reconcile"
    /\ pass'.parent = pass.parent

\* the pass returned no error, and none of its client calls failed
Clean(p) ==
    /\ p.kind = "reconcile"
    /\ ~p.error
    /\ ~p.panic
    /\ \A i \in 1..Len(p.log) : p.log[i].ok

\* C1 as stated: the second of two back-to-back passes issues zero writes of any
\* kind to the state store.
C1_ZeroWrites == [][BackToBack => Writes(pass'.log) = {}]_vars

\* C1, amended: when a pass that returned no error, had no failed call and deleted
\* nothing is followed at once by a second pass for the same parent, the second
\* pass creates, updates and deletes no object; its only writes are status writes.
C1_NoObjectWrites ==
    [][(BackToBack /\ Clean(pass) /\ Deletes(pass.log) = {})
          => ObjectWrites(pass'.log) = {}]_vars

\* a second pass over converged children of both tiers: no object write, yet the
\* status was written by the application sync, the database sync and
\* UpdateReconciled
C1_Witness ==
    /\ Clean(pass)
    /\ pass.again
    /\ ObjectWrites(pass.log) = {}
    /\ Cardinality(StatusWrites(pass.log)) = 3
    /\ P1 \in DOMAIN sts
    /\ (P1 \o <<"db", "master">>) \in DOMAIN sts

\* the condition of a type in a condition list
HasCondition(conditions, type) == FirstIndex(conditions, type) # 0

ConditionOf(conditions, type) == conditions[FirstIndex(conditions, type)]

\* the objects a pass created or updated, as <<kind, name>>
Reconciled(log) ==
    {<<log[i].kind, log[i].name>> :
        i \in {j \in 1..Len(log) : log[j].ok /\ log[j].verb \in {"create", "update"}}}

AppAutoscaler(p) == p \o <<"autoscaler">>

Master(p) == p \o <<"db", "master">>

Replica(p) == p \o <<"db", "replica">>

Galera(p) == p \o <<"db", "galera">>

ReadService(p) == p \o <<"db", "read">>

ReplicationSecret(p) == p \o <<"db", "replication">>

\* C2 as stated: once the autoscaler of the application workload exists (and the
\* spec still declares autoscaling), no pass changes a replica count that
\* differs from the spec's static value, because the autoscaler has set it.
C2_ReplicasExternallyManaged ==
    [][(/\ pass'.kind = "reconcile"
        /\ pass'.parent = P1
        /\ P1 \in DOMAIN parents
        /\ IsSet(parents[P1].spec.autoscaling)
        /\ AppAutoscaler(P1) \in DOMAIN hpa
        /\ P1 \in DOMAIN sts
        /\ sts[P1].spec.replicas # parents[P1].spec.replicas)
          => (P1 \in DOMAIN sts' /\ sts'[P1].spec.replicas = sts[P1].spec.replicas)]_vars

\* C3: a pass with the database enabled creates or updates no primary workload,
\* replica workload or read endpoint when highAvailability.enabled is true, and
\* no cluster workload or cluster discovery endpoint when it is false.
C3_TopologyExclusive ==
    (pass.kind = "reconcile" /\ pass.parent \in DOMAIN parents
        /\ databaseEnabled(parents[pass.parent]))
    => IF databaseHAEnabled(parents[pass.parent])
       THEN Reconciled(pass.log) \cap {<<"sts", Master(pass.parent)>>,
                                       <<"sts", Replica(pass.parent)>>,
                                       <<"svc", ReadService(pass.parent)>>} = {}
       ELSE Reconciled(pass.log) \cap {<<"sts", Galera(pass.parent)>>,
                                       <<"svc", Galera(pass.parent)>>} = {}

\* a pass in high-availability mode, with replicas declared, that created the
\* cluster workload while the primary workload of the earlier topology exists
C3_Witness ==
    /\ Clean(pass)
    /\ databaseHAEnabled(parents[P1])
    /\ Val(parents[P1].spec.database).replicas > 0
    /\ <<"sts", Galera(P1)>> \in Reconciled(pass.log)
    /\ Master(P1) \in DOMAIN sts

\* C4 as stated: after a pass that completed without error, the workloads of
\* the primary/replica topology and of the cluster topology of one parent do
\* not exist together.
C4_OneTopology ==
    Clean(pass) =>
        ~(/\ Galera(P1) \in DOMAIN sts
          /\ (Master(P1) \in DOMAIN sts \/ Replica(P1) \in DOMAIN sts))

\* the claims of the application tier of the parent p
AppClaims(store, p) ==
    {c \in DOMAIN store : \E ordinal \in 0..MaxOrdinal :
        c = <<"music", "data">> \o p \o <<Itoa(ordinal)>>}

\* C5 as stated: under the Resize policy, a pass that finds the declared size
\* of the application tier smaller than the current one changes neither the
\* workload's volume claim template nor any claim of the tier, and sets the
\* tier's storage warning to False/ShrinkNotSupported.
C5_ShrinkRefused ==
    [][(/\ pass'.kind = "reconcile"
        /\ pass'.parent = P1
        /\ P1 \in DOMAIN parents
        /\ P1 \in DOMAIN sts
        /\ storageUpdatePolicy(parents[P1].spec.storage) = "Resize"
        /\ ParseQuantity(parents[P1].spec.storage.size).ok
        /\ ParseQuantity(parents[P1].spec.storage.size).value
               < Val(storageRequestFromStatefulSet(sts[P1])))
          => (/\ P1 \in DOMAIN sts'
              /\ sts'[P1].spec.volumeClaimTemplates = sts[P1].spec.volumeClaimTemplates
              /\ \A c \in AppClaims(pvc, P1) : c \in DOMAIN pvc' /\ pvc'[c] = pvc[c]
              /\ HasCondition(parents'[P1].status.conditions, "StorageWarningApp")
              /\ ConditionOf(parents'[P1].status.conditions, "StorageWarningApp").status
                     = "False"
              /\ ConditionOf(parents'[P1].status.conditions, "StorageWarningApp").reason
                     = "ShrinkNotSupported")]_vars

\* C6 as stated: a pass that finds a size delta on the application tier under
\* the Recreate policy deletes that tier's workload and its claims, and no pass
\* deletes a claim that is not of its parent's tier or a workload its parent
\* does not own.
C6_RecreateScope ==
    [][pass'.kind = "reconcile"
          => (/\ \A c \in DOMAIN pvc \ DOMAIN pvc' : c \in AppClaims(pvc, pass'.parent)
              /\ \A n \in DOMAIN sts \ DOMAIN sts' : sts[n].owner = pass'.parent
              /\ (/\ pass'.parent \in DOMAIN sts
                  /\ pass'.parent \in DOMAIN parents
                  /\ storageUpdatePolicy(parents[pass'.parent].spec.storage) = "Recreate"
                  /\ storageSizeChanged(sts[pass'.parent],
                                        BuildAppStatefulSet(parents[pass'.parent])))
                    => (/\ pass'.parent \notin DOMAIN sts'
                        /\ AppClaims(pvc', pass'.parent) = {}))]_vars

\* C7: a pass changes no username or password value the credential record
\* holds; it does not write a record that holds both; and what it adds to a
\* record is a sub-field the record lacked, after which the record holds both.
C7_CredentialStable ==
    [][(pass'.kind = "reconcile" /\ ReplicationSecret(P1) \in DOMAIN secret)
          => LET old == secret[ReplicationSecret(P1)].data
                 written == \E i \in 1..Len(pass'.log) :
                               /\ pass'.log[i].kind = "secret"
                               /\ pass'.log[i].verb \in {"create", "update", "delete"}
             IN  /\ ReplicationSecret(P1) \in DOMAIN secret'
                 /\ \A k \in DOMAIN old :
                       /\ k \in DOMAIN secret'[ReplicationSecret(P1)].data
                       /\ secret'[ReplicationSecret(P1)].data[k] = old[k]
                 /\ DOMAIN old = {"username", "password"} => ~written
                 /\ written => /\ DOMAIN old # {"username", "password"}
                               /\ DOMAIN secret'[ReplicationSecret(P1)].data
                                      = {"username", "password"}]_vars

\* a pass that found the record with a sub-field missing and updated it
C7_Witness ==
    /\ Clean(pass)
    /\ \E i \in 1..Len(pass.log) :
          pass.log[i].kind = "secret" /\ pass.log[i].verb = "update"
    /\ DOMAIN secret[ReplicationSecret(P1)].data = {"username", "password"}

\* C8: a call of setCondition keeps every stored condition in its place; the
\* lastTransitionTime of a condition whose status the call did not change is
\* kept, whatever the reason and message, and the lastTransitionTime of a
\* condition whose status the call changed is the current time.
C8_ConditionStable ==
    [][pass'.kind = "setCondition"
          => \A i \in 1..Len(parents[P1].status.conditions) :
                LET old == parents[P1].status.conditions[i]
                    new == parents'[P1].status.conditions[i]
                IN  /\ new.type = old.type
                    /\ new.status = old.status
                          => new.lastTransitionTime = old.lastTransitionTime
                    /\ new.status # old.status => new.lastTransitionTime = clock]_vars

\* a call that changed only the reason of a stored condition, made after the
\* clock moved on: the condition still carries the earlier time
C8_Witness ==
    /\ pass.kind = "setCondition"
    /\ pass.again
    /\ ConditionOf(parents[P1].status.conditions, pass.reason).lastTransitionTime < clock

\* the sequence part occurs in the sequence whole
Contains(whole, part) ==
    \E i \in 0..(Len(whole) - Len(part)) : SubSeq(whole, i + 1, i + Len(part)) = part

\* C9: after a pass synchronised the status from the application workload with
\* d declared and r ready replicas, 0 <= r <= d: readyReplicas is r; the phase
\* is Pending and Available is False/PodsNotReady when r = 0; Progressing and
\* Available False with "r/d ready" in the message when 0 < r < d; Available
\* and Available True/PodsReady when r = d.
C9_Phase ==
    (/\ Clean(pass)
     /\ pass.parent = P1
     /\ \E i \in 1..Len(pass.events) : pass.events[i] = "Ready"
     /\ sts[P1].status.readyReplicas <= sts[P1].spec.replicas)
    => LET r == sts[P1].status.readyReplicas
           d == sts[P1].spec.replicas
           status == parents[P1].status
           available == ConditionOf(status.conditions, "Available")
       IN  /\ d >= 1
           /\ status.readyReplicas = r
           /\ HasCondition(status.conditions, "Available")
           /\ r = 0 => /\ status.phase = "Pending"
                       /\ available.status = "False"
                       /\ available.reason = "PodsNotReady"
           /\ (0 < r /\ r < d) =>
                 /\ status.phase = "Progressing"
                 /\ available.status = "False"
                 /\ Contains(available.message, <<Itoa(r), "/", Itoa(d), " ready">>)
           /\ r = d => /\ status.phase = "Available"
                       /\ available.status = "True"
                       /\ available.reason = "PodsReady"

\* a pass that found one of two declared replicas ready
C9_Witness ==
    /\ Clean(pass)
    /\ \E i \in 1..Len(pass.events) : pass.events[i] = "Ready"
    /\ sts[P1].status.readyReplicas = 1
    /\ sts[P1].spec.replicas = 2
    /\ parents[P1].status.phase = "Progressing"

\* C10: after a pass updated the database status with replicas declared: when
\* the replica workload is present replicaEverCreated is true and
\* replicaDeletionDetected false; when it is absent, replicaDeletionDetected is
\* false if replicaEverCreated is false, and if replicaEverCreated is true it
\* is true and DatabaseReplicaHistory is False/ReplicaDeleted.
C10_ReplicaHistory ==
    (/\ Clean(pass)
     /\ pass.parent = P1
     /\ databaseEnabled(parents[P1])
     /\ Val(parents[P1].spec.database).replicas > 0)
    => LET db == Val(parents[P1].status.database)
           conditions == parents[P1].status.conditions
       IN  IF Replica(P1) \in DOMAIN sts
           THEN db.replicaEverCreated /\ ~db.replicaDeletionDetected
           ELSE IF db.replicaEverCreated
           THEN /\ db.replicaDeletionDetected
                /\ HasCondition(conditions, "DatabaseReplicaHistory")
                /\ ConditionOf(conditions, "DatabaseReplicaHistory").status = "False"
                /\ ConditionOf(conditions, "DatabaseReplicaHistory").reason = "ReplicaDeleted"
           ELSE ~db.replicaDeletionDetected

\* a pass that found the replica workload absent after an earlier pass had seen it
C10_Witness ==
    /\ Clean(pass)
    /\ databaseEnabled(parents[P1])
    /\ Val(parents[P1].spec.database).replicas > 0
    /\ Replica(P1) \notin DOMAIN sts
    /\ Val(parents[P1].status.database).replicaEverCreated
    /\ Val(parents[P1].status.database).replicaDeletionDetected

\* the pass returned no error and reported none: no step failed
Succeeded(p) ==
    /\ p.kind = "reconcile"
    /\ ~p.error
    /\ ~p.panic
    /\ p.reason = ""

\* err.Error() of the client call that failed in the pass
FailureOf(p) ==
    LET i == CHOOSE j \in 1..Len(p.log) : ~p.log[j].ok
    IN  ErrorOf(p.log[i].verb, p.log[i].kind)

\* C11: after a pass in which a step failed and UpdateError wrote the status,
\* the stored status has phase Failed, lastError equal to the failure message,
\* and Reconciled False with the step's reason and that message; after a pass
\* on a live parent in which no step failed, lastError is empty and Reconciled
\* is True.
C11_FailureReported ==
    /\ (pass.kind = "reconcile" /\ pass.reason # "" /\ ~pass.error)
          => LET status == parents[pass.parent].status
                 reconciled == ConditionOf(status.conditions, "Reconciled")
             IN  /\ status.phase = "Failed"
                 /\ status.lastError = FailureOf(pass)
                 /\ HasCondition(status.conditions, "Reconciled")
                 /\ reconciled.status = "False"
                 /\ reconciled.reason = pass.reason
                 /\ reconciled.message = FailureOf(pass)
                 /\ pass.reason \in {"ServiceFailed", "StatefulSetFailed", "AutoscalerFailed",
                                     "DBGaleraFailed", "DBGaleraServicesFailed",
                                     "DBMasterFailed", "DBReplicasFailed",
                                     "DBServicesFailed", "DBAutoscalerFailed"}
    /\ (Succeeded(pass) /\ pass.stepsFrom > 0)
          => LET status == parents[pass.parent].status
             IN  /\ status.lastError = <<>>
                 /\ HasCondition(status.conditions, "Reconciled")
                 /\ ConditionOf(status.conditions, "Reconciled").status = "True"

\* a pass without a failure, right after a pass of the same parent that
\* reported one
C11_Witness ==
    /\ Succeeded(pass)
    /\ pass.stepsFrom > 0
    /\ pass.prior # ""
    /\ parents[pass.parent].status.lastError = <<>>

\* the objects of the store f that the step leaves in place are unchanged
Kept(f, g) == (DOMAIN g \subseteq DOMAIN f) /\ (\A n \in DOMAIN g : g[n] = f[n])

\* C12: a pass on a parent pending deletion calls the store only to read the
\* parent and to remove the finalizer; it creates, updates and deletes no
\* child, writes no status, and writes nothing when the finalizer is absent.
C12_DeletionPreempts ==
    [][(/\ pass'.kind = "reconcile"
        /\ pass'.parent \in DOMAIN parents
        /\ parents[pass'.parent].deleting)
          => (/\ \A i \in 1..Len(pass'.log) :
                    /\ pass'.log[i].kind = "parent"
                    /\ pass'.log[i].verb \in {"get", "update"}
              /\ Kept(sts, sts') /\ Kept(svc, svc') /\ Kept(hpa, hpa')
              /\ Kept(secret, secret') /\ pvc' = pvc
              /\ pass'.parent \in DOMAIN parents'
                    => parents'[pass'.parent].status = parents[pass'.parent].status
              /\ IF parents[pass'.parent].finalizer
                 THEN Cardinality(Writes(pass'.log)) = 1
                 ELSE Writes(pass'.log) = {} /\ parents' = parents)]_vars

\* a pass that removed the finalizer of a parent pending deletion
C12_Witness ==
    /\ pass.kind = "reconcile"
    /\ \E i \in 1..Len(pass.events) : pass.events[i] = "Deleting"
    /\ Cardinality(Writes(pass.log)) = 1
    /\ pass.parent \notin DOMAIN parents

\* among the child steps of the pass p, every call on the object <<k2, n2>> comes
\* after a call on the object <<k1, n1>>
Precedes(p, k1, n1, k2, n2) ==
    \A j \in (p.stepsFrom + 1)..p.stepsTo :
        (p.log[j].kind = k2 /\ p.log[j].name = n2)
            => \E i \in (p.stepsFrom + 1)..(j - 1) :
                  p.log[i].kind = k1 /\ p.log[i].name = n1

\* C13 as stated: in every pass the application endpoint is reconciled before
\* the application workload, the replication credential before the replica
\* workload, the primary endpoint before the primary workload and the read
\* endpoint before the replica workload.
C13_DependencyOrder ==
    pass.kind = "reconcile"
        => /\ Precedes(pass, "svc", pass.parent, "sts", pass.parent)
           /\ Precedes(pass, "secret", ReplicationSecret(pass.parent),
                       "sts", Replica(pass.parent))
           /\ Precedes(pass, "svc", Master(pass.parent), "sts", Master(pass.parent))
           /\ Precedes(pass, "svc", ReadService(pass.parent), "sts", Replica(pass.parent))

\* C14 as stated: every pass that returns no error hands the scheduler a
\* requeue interval, 5 when the ready count in the status is below the spec's
\* replica count and 30 otherwise.
C14_ResyncAlways ==
    (pass.kind = "reconcile" /\ ~pass.error /\ ~pass.panic)
        => /\ pass.requeueAfter \in {5, 30}
           /\ pass.parent \in DOMAIN parents
           /\ pass.requeueAfter =
                 IF parents[pass.parent].status.readyReplicas
                        < parents[pass.parent].spec.replicas
                 THEN 5 ELSE 30

\* C14, for a parent that exists and is not pending deletion: a pass in which
\* no step failed hands the scheduler the interval 5 when the ready count in
\* the stored status is below the spec's replica count, and 30 otherwise.
C14_ResyncInterval ==
    (Succeeded(pass) /\ pass.stepsFrom > 0)
        => /\ pass.parent \in DOMAIN parents
           /\ pass.requeueAfter =
                 IF parents[pass.parent].status.readyReplicas
                        < parents[pass.parent].spec.replicas
                 THEN 5 ELSE 30

\* a pass that found one of two declared replicas ready and asked for 5 seconds
C14_Witness ==
    /\ Succeeded(pass)
    /\ pass.stepsFrom > 0
    /\ parents[pass.parent].spec.replicas = 2
    /\ parents[pass.parent].status.readyReplicas = 1
    /\ pass.requeueAfter = 5

C16_PrimaryFixed ==
    /\ (P1 \in DOMAIN parents /\ databaseEnabled(parents[P1]))
          => BuildDatabaseMasterStatefulSet(parents[P1]).spec.replicas = 1
    /\ (/\ Clean(pass)
        /\ pass.stepsFrom > 0
        /\ databaseEnabled(parents[pass.parent])
        /\ ~databaseHAEnabled(parents[pass.parent]))
          => /\ Master(pass.parent) \in DOMAIN sts
             /\ sts[Master(pass.parent)].spec.replicas = 1

\* a pass that updated the primary workload though the spec never changed:
\* someone had scaled it
C16_Witness ==
    /\ Clean(pass)
    /\ parents[pass.parent].generation = 1
    /\ ~databaseHAEnabled(parents[pass.parent])
    /\ \E i \in 1..Len(pass.log) :
          /\ pass.log[i].verb = "update"
          /\ pass.log[i].kind = "sts"
          /\ pass.log[i].name = Master(pass.parent)
    /\ sts[Master(pass.parent)].spec.replicas = 1

\* the descriptors the builder returns for the parent ms
Descriptors(ms) ==
    <<BuildAppService(ms), BuildAppStatefulSet(ms),
      BuildDatabaseMasterStatefulSet(ms), BuildDatabaseReplicaStatefulSet(ms),
      BuildDatabaseMasterService(ms), BuildDatabaseReadService(ms)>>

C18_PoolSize ==
    (P1 \in DOMAIN parents /\ databaseHAEnabled(parents[P1]))
        => LET galera == BuildDatabaseGaleraStatefulSet(parents[P1])
               N == Val(parents[P1].spec.database).replicas
           IN  /\ galera.spec.replicas = N + 1
               /\ galera.spec.serviceName = Galera(P1)
               /\ (Clean(pass) /\ <<"sts", Galera(P1)>> \in Reconciled(pass.log))
                     => /\ sts[Galera(P1)].spec.replicas = N + 1
                        /\ sts[Galera(P1)].spec.serviceName = Galera(P1)

\* a pass that created the cluster workload for two declared replicas: three nodes
C18_Witness ==
    /\ Clean(pass)
    /\ databaseHAEnabled(parents[P1])
    /\ Val(parents[P1].spec.database).replicas = 2
    /\ <<"sts", Galera(P1)>> \in Reconciled(pass.log)
    /\ sts[Galera(P1)].spec.replicas = 3

\* the stored objects of one kind
StoreOf(kind) ==
    CASE kind = "sts" -> sts
      [] kind = "svc" -> svc
      [] kind = "hpa" -> hpa
      [] kind = "secret" -> secret
      [] kind = "pvc" -> pvc

\* C19 as stated: when a client call of a child step fails, it is the last call
\* of the child steps, the pass reports the failure in the status (phase
\* Failed, lastError the failure message), and every child the pass created or
\* updated before it is still in the store.
C19_AbortOnFailure ==
    pass.kind = "reconcile"
        => \A i \in (pass.stepsFrom + 1)..pass.stepsTo :
              ~pass.log[i].ok
                 => /\ i = pass.stepsTo
                    /\ pass.reason # ""
                    /\ parents[pass.parent].status.phase = "Failed"
                    /\ parents[pass.parent].status.lastError
                          = ErrorOf(pass.log[i].verb, pass.log[i].kind)
                    /\ \A j \in (pass.stepsFrom + 1)..(i - 1) :
                          (pass.log[j].verb \in {"create", "update"})
                              => pass.log[j].name \in DOMAIN StoreOf(pass.log[j].kind)

\* the objects of the store f that another parent than p owns are, after the
\* step, in the store g as they were
OthersKept(f, g, p) ==
    \A n \in DOMAIN f : f[n].owner # p => (n \in DOMAIN g /\ g[n] = f[n])

\* C20 as stated: a pass for one parent leaves every workload, endpoint,
\* autoscaler and credential that another parent owns, and every volume claim
\* of another parent's application tier, in the store as it was.
C20_Isolation ==
    [][pass'.kind = "reconcile"
          => (/\ OthersKept(sts, sts', pass'.parent)
              /\ OthersKept(svc, svc', pass'.parent)
              /\ OthersKept(hpa, hpa', pass'.parent)
              /\ OthersKept(secret, secret', pass'.parent)
              /\ \A q \in DOMAIN parents \ {pass'.parent} :
                    \A c \in AppClaims(pvc, q) :
                        c \in DOMAIN pvc' /\ pvc'[c] = pvc[c])]_vars

\* C21 as stated: when someone deletes the replica workload after a pass has
\* seen it, the next pass (database enabled, primary/replica mode, replicas
\* declared) stores replicaDeletionDetected true and DatabaseReplicaHistory
\* False/ReplicaDeleted.
C21_RegressionDetected ==
    [][(/\ pass.kind = "workloadDeleted"
        /\ pass.parent = Replica(P1)
        /\ pass'.kind = "reconcile"
        /\ Clean(pass')
        /\ databaseEnabled(parents[P1])
        /\ ~databaseHAEnabled(parents[P1])
        /\ Val(parents[P1].spec.database).replicas > 0
        /\ IsSet(parents[P1].status.database)
        /\ Val(parents[P1].status.database).replicaEverCreated)
          => (/\ Val(parents'[P1].status.database).replicaDeletionDetected
              /\ HasCondition(parents'[P1].status.conditions, "DatabaseReplicaHistory")
              /\ ConditionOf(parents'[P1].status.conditions,
                             "DatabaseReplicaHistory").status = "False"
              /\ ConditionOf(parents'[P1].status.conditions,
                             "DatabaseReplicaHistory").reason = "ReplicaDeleted")]_vars

\* C25 as stated: after a pass with the database enabled and without a
\* failure, masterReady is true exactly when the primary workload exists with
\* a ready replica, and the database phase is Ready exactly when masterReady is
\* true.
C25_MasterReady ==
    (/\ Clean(pass)
     /\ pass.stepsFrom > 0
     /\ databaseEnabled(parents[pass.parent]))
    => LET db == Val(parents[pass.parent].status.database)
           master == Master(pass.parent)
       IN  /\ db.masterReady
                 <=> (master \in DOMAIN sts /\ sts[master].status.readyReplicas > 0)
           /\ (db.phase = "Ready") <=> db.masterReady

\* the application workload of P1 and the claim of its first pod exist, and the
\* workload's template and every claim of the tier request the declared size
StorageConverged ==
    /\ P1 \in DOMAIN sts
    /\ ~storageSizeChanged(sts[P1], BuildAppStatefulSet(parents[P1]))
    /\ ClaimName(sts[P1], P1, 0) \in DOMAIN pvc
    /\ \A c \in AppClaims(pvc, P1) :
          pvc[c].storage = storageRequestFromStatefulSet(BuildAppStatefulSet(parents[P1]))

\* C22 as stated: from a size delta under the Recreate policy, unless the spec
\* changes again, passes lead to a state where the workload and every claim of
\* the tier exist at the declared size, also when a pass failed on the way.
C22_RecreateConverges ==
    \A g \in 1..MaxGeneration :
        (/\ parents[P1].generation = g
         /\ storageUpdatePolicy(parents[P1].spec.storage) = "Recreate"
         /\ P1 \in DOMAIN sts
         /\ storageSizeChanged(sts[P1], BuildAppStatefulSet(parents[P1])))
            ~> (parents[P1].generation # g \/ StorageConverged)

\* C23 as stated: a pass that aborts on a step failure hands the scheduler a
\* non-nil error or a non-zero requeue interval.
C23_FailureRetried ==
    (pass.kind = "reconcile" /\ pass.reason # "")
        => (pass.error \/ pass.requeueAfter > 0)

\* C24 as stated: after a pass without error, status.readyReplicas and
\* status.phase describe the application workload observed in that pass; when
\* the workload is absent at observation time the status keeps no ready count
\* and no phase of a workload.
C24_StatusRecomputed ==
    (Clean(pass) /\ pass.parent = P1 /\ pass.stepsFrom > 0 /\ P1 \in DOMAIN parents)
        => IF P1 \in DOMAIN sts
           THEN parents[P1].status.readyReplicas = sts[P1].status.readyReplicas
           ELSE /\ parents[P1].status.readyReplicas = 0
                /\ parents[P1].status.phase \notin {"Available", "Progressing"}

\* the stored object of that name carries the spec of the descriptor
SpecMatches(store, name, desired) ==
    name \in DOMAIN store /\ store[name].spec = desired.spec

\* every child of P1 equals the descriptor built from the current spec, no
\* child of another configuration is left, and every volume claim of a
\* workload has the size the workload's template declares
Converged ==
    /\ P1 \in DOMAIN parents
    /\ ~parents[P1].deleting
    /\ LET ms == parents[P1] IN
       /\ SpecMatches(svc, P1, BuildAppService(ms))
       /\ SpecMatches(sts, P1, BuildAppStatefulSet(ms))
       /\ IF IsSet(ms.spec.autoscaling)
          THEN SpecMatches(hpa, AppAutoscaler(P1), BuildAutoscaler(ms))
          ELSE AppAutoscaler(P1) \notin DOMAIN hpa
       /\ databaseEnabled(ms) =>
             IF databaseHAEnabled(ms)
             THEN /\ SpecMatches(sts, Galera(P1), BuildDatabaseGaleraStatefulSet(ms))
                  /\ SpecMatches(svc, Galera(P1), BuildDatabaseGaleraService(ms))
                  /\ SpecMatches(svc, Master(P1), BuildDatabaseGaleraPrimaryService(ms))
             ELSE /\ SpecMatches(sts, Master(P1), BuildDatabaseMasterStatefulSet(ms))
                  /\ SpecMatches(svc, Master(P1), BuildDatabaseMasterService(ms))
                  /\ Val(ms.spec.database).replicas > 0 =>
                        /\ SpecMatches(sts, Replica(P1), BuildDatabaseReplicaStatefulSet(ms))
                        /\ SpecMatches(svc, ReadService(P1), BuildDatabaseReadService(ms))
                        /\ replicationEnabled(ms) =>
                              /\ ReplicationSecret(P1) \in DOMAIN secret
                              /\ {"username", "password"}
                                     \subseteq DOMAIN secret[ReplicationSecret(P1)].data
                        /\ IsSet(Val(ms.spec.database).autoscaling) =>
                              SpecMatches(hpa, Replica(P1) \o <<"autoscaler">>,
                                          BuildDatabaseReplicaAutoscaler(ms))
    /\ \A n \in DOMAIN sts : \A ordinal \in 0..MaxOrdinal :
          ClaimName(sts[n], n, ordinal) \in DOMAIN pvc
              => pvc[ClaimName(sts[n], n, ordinal)].storage
                     = storageRequestFromStatefulSet(sts[n])

\* the calls of a pass that create, update or delete a child
ChildWrites(log) == {i \in ObjectWrites(log) : log[i].kind # "parent"}

\* C26: when every child of a parent equals the descriptor built from the
\* current spec, and the volume claims have the declared size, a pass for the
\* parent creates, updates and deletes no workload, endpoint, autoscaler,
\* volume claim or credential.
C26_ConvergedNoChildWrites ==
    [][(Converged /\ pass'.kind = "reconcile" /\ pass'.parent = P1)
          => (/\ ChildWrites(pass'.log) = {}
              /\ sts' = sts /\ svc' = svc /\ hpa' = hpa /\ pvc' = pvc
              /\ secret' = secret)]_vars

\* a duplicate pass over converged children of both tiers, with the claims of
\* the application and of the primary provisioned and the replica autoscaler
\* in place: it wrote no child
C26_Witness ==
    /\ Clean(pass)
    /\ pass.again
    /\ Converged
    /\ ChildWrites(pass.log) = {}
    /\ AppClaims(pvc, P1) # {}
    /\ ClaimName(sts[Master(P1)], Master(P1), 0) \in DOMAIN pvc
    /\ (Replica(P1) \o <<"autoscaler">>) \in DOMAIN hpa

\* C27 as stated: in primary/replica mode without a replica autoscaler, after
\* a pass that completed without error the replica workload, if it exists,
\* declares exactly the spec's database replica count, also when the spec
\* lowered the count to 0.
C27_ReplicaCount ==
    (/\ Clean(pass)
     /\ pass.parent = P1
     /\ P1 \in DOMAIN parents
     /\ databaseEnabled(parents[P1])
     /\ ~databaseHAEnabled(parents[P1])
     /\ ~IsSet(Val(parents[P1].spec.database).autoscaling)
     /\ Replica(P1) \in DOMAIN sts)
        => sts[Replica(P1)].spec.replicas = Val(parents[P1].spec.database).replicas

\* C28 as stated: after a pass that completed without error, the port of the
\* live application endpoint equals the spec's port; an endpoint that exists
\* is updated when its port differs.
C28_PortConverges ==
    (/\ Clean(pass)
     /\ pass.parent = P1
     /\ pass.stepsFrom > 0
     /\ P1 \in DOMAIN svc)
        => svc[P1].spec.ports[1].port = parents[P1].spec.port

\* the pass updated the object of that kind and name
Updated(log, kind, name) ==
    \E i \in 1..Len(log) :
        log[i].ok /\ log[i].verb = "update" /\ log[i].kind = kind /\ log[i].name = name

\* C29 as stated: when a pass updates the application workload, the selector,
\* the governing service name, the volume-claim templates and the pod labels
\* of the live workload keep their values.
C29_UpdateFrame ==
    [][(/\ pass'.kind = "reconcile"
        /\ pass'.parent = P1
        /\ P1 \in DOMAIN sts
        /\ Updated(pass'.log, "sts", P1))
          => (/\ P1 \in DOMAIN sts'
              /\ sts'[P1].spec.selector = sts[P1].spec.selector
              /\ sts'[P1].spec.serviceName = sts[P1].spec.serviceName
              /\ sts'[P1].spec.volumeClaimTemplates = sts[P1].spec.volumeClaimTemplates
              /\ sts'[P1].spec.template.labels = sts[P1].spec.template.labels)]_vars

\* the larger of two sizes
Larger(a, b) == IF a >= b THEN a ELSE b

\* C30 as stated: under the Resize policy, after a pass that completed without
\* error every volume claim of the application tier requests the larger of its
\* size before the pass and the declared size.
C30_ResizeGrows ==
    [][(/\ Clean(pass')
        /\ pass'.parent = P1
        /\ P1 \in DOMAIN parents
        /\ storageUpdatePolicy(parents[P1].spec.storage) = "Resize"
        /\ ParseQuantity(parents[P1].spec.storage.size).ok)
          => \A c \in AppClaims(pvc, P1) :
                /\ c \in DOMAIN pvc'
                /\ IsSet(pvc[c].storage) /\ IsSet(pvc'[c].storage)
                /\ Val(pvc'[c].storage)
                       = Larger(Val(pvc[c].storage),
                                ParseQuantity(parents[P1].spec.storage.size).value)]_vars

\* the spec of the parent declares a size of either tier that does not parse
MalformedSize(ms) ==
    \/ ~ParseQuantity(ms.spec.storage.size).ok
    \/ /\ databaseEnabled(ms)
       /\ IsSet(Val(ms.spec.database).storage)
       /\ ~ParseQuantity(Val(Val(ms.spec.database).storage).size).ok

\* C31 as stated: a pass over a spec with a malformed application or database
\* storage size does not crash; it aborts with an error and the status reports
\* phase Failed with the Reconciled condition False.
C31_MalformedReported ==
    (/\ pass.kind = "reconcile"
     /\ pass.parent = P1
     /\ P1 \in DOMAIN parents
     /\ MalformedSize(parents[P1]))
        => (/\ ~pass.panic
            /\ parents[P1].status.phase = "Failed"
            /\ HasCondition(parents[P1].status.conditions, "Reconciled")
            /\ ConditionOf(parents[P1].status.conditions, "Reconciled").status = "False")

\* the pass created the object of that kind and name
Created(log, kind, name) ==
    \E i \in 1..Len(log) :
        log[i].ok /\ log[i].verb = "create" /\ log[i].kind = kind /\ log[i].name = name

\* the replication credential of P1 is absent, replication is enabled and
\* replicas are declared
FirstNeed ==
    /\ ReplicationSecret(P1) \notin DOMAIN secret
    /\ replicationEnabled(parents[P1])
    /\ Val(parents[P1].spec.database).replicas > 0

EverCreated(store, p) ==
    /\ p \in DOMAIN store
    /\ IsSet(store[p].status.database)
    /\ Val(store[p].status.database).replicaEverCreated

\* C33: once replicaEverCreated is true in the persisted status of a parent,
\* it is true in every later persisted status of that parent, whatever the
\* step: a pass, or a change of the replica count, the topology or the storage.
C33_EverCreatedPermanent ==
    [][(EverCreated(parents, P1) /\ P1 \in DOMAIN parents')
          => EverCreated(parents', P1)]_vars

\* a pass that completed without error stored replicaEverCreated true while
\* no replica workload exists any more
C33_Witness ==
    /\ Clean(pass)
    /\ pass.stepsFrom > 0
    /\ EverCreated(parents, P1)
    /\ Replica(P1) \notin DOMAIN sts

\* C34 as stated: in the status a pass leaves, phase is Failed only if the
\* Reconciled condition is False; a pass that returns no error never leaves
\* phase Failed, also when it could not read the application workload.
C34_PhaseAgrees ==
    (/\ pass.kind = "reconcile"
     /\ pass.parent = P1
     /\ P1 \in DOMAIN parents
     /\ pass.stepsFrom > 0
     /\ parents[P1].status.phase = "Failed")
        => (/\ HasCondition(parents[P1].status.conditions, "Reconciled")
            /\ ConditionOf(parents[P1].status.conditions, "Reconciled").status = "False"
            /\ pass.error \/ pass.panic \/ pass.reason # "")

\* C35: after every pass that completes without error, the application
\* autoscaler exists if and only if spec.autoscaling is set, and when it
\* exists its bounds and its utilization targets are the spec's; a pass
\* deletes the autoscaler it finds when the spec declares none.
C35_AutoscalerFollowsSpec ==
    (Clean(pass) /\ pass.parent = P1 /\ pass.stepsFrom > 0)
        => LET a == parents[P1].spec.autoscaling IN
           IF IsSet(a)
           THEN /\ AppAutoscaler(P1) \in DOMAIN hpa
                /\ LET live == hpa[AppAutoscaler(P1)].spec IN
                   /\ live.minReplicas = Some(Val(a).minReplicas)
                   /\ live.maxReplicas = Val(a).maxReplicas
                   /\ live.metrics[1].name = "cpu"
                   /\ live.metrics[1].averageUtilization
                          = Val(a).targetCPUUtilizationPercentage
                   /\ IF IsSet(Val(a).targetMemoryUtilizationPercentage)
                      THEN /\ Len(live.metrics) = 2
                           /\ live.metrics[2].name = "memory"
                           /\ live.metrics[2].averageUtilization
                                  = Val(Val(a).targetMemoryUtilizationPercentage)
                      ELSE Len(live.metrics) = 1
           ELSE AppAutoscaler(P1) \notin DOMAIN hpa

\* a pass updated the autoscaler it found to a spec that declares a memory
\* target next to the CPU target
C35_Witness ==
    /\ Clean(pass)
    /\ Updated(pass.log, "hpa", AppAutoscaler(P1))
    /\ IsSet(parents[P1].spec.autoscaling)
    /\ IsSet(Val(parents[P1].spec.autoscaling).targetMemoryUtilizationPercentage)
    /\ Len(hpa[AppAutoscaler(P1)].spec.metrics) = 2

DatabaseAutoscaler(p) == p \o <<"db", "replica", "autoscaler">>

\* C36 as stated: after every pass that completes without error, a
\* database-replica autoscaler exists only if database.autoscaling is set, the
\* replica count is greater than 0 and the primary/replica topology is
\* selected.
C36_DatabaseAutoscalerTargets ==
    (/\ Clean(pass)
     /\ pass.parent = P1
     /\ pass.stepsFrom > 0
     /\ databaseEnabled(parents[P1])
     /\ DatabaseAutoscaler(P1) \in DOMAIN hpa)
        => (/\ IsSet(Val(parents[P1].spec.database).autoscaling)
            /\ Val(parents[P1].spec.database).replicas > 0
            /\ ~databaseHAEnabled(parents[P1]))

\* the pass deleted the object itself
Deleted(log, kind, name) ==
    \E i \in DOMAIN log :
        /\ log[i].verb = "delete"
        /\ log[i].kind = kind
        /\ log[i].name = name
        /\ log[i].ok

\* C37 as stated: when a pass itself deletes the replica workload under the
\* Recreate policy, the status stored by that pass does not set
\* replicaDeletionDetected and does not turn DatabaseReplicaHistory to
\* False/ReplicaDeleted.
C37_OwnRecreateNotRegression ==
    (/\ Clean(pass)
     /\ pass.parent = P1
     /\ Deleted(pass.log, "sts", Replica(P1))
     /\ IsSet(parents[P1].status.database))
        => (/\ ~Val(parents[P1].status.database).replicaDeletionDetected
            /\ ~(/\ HasCondition(parents[P1].status.conditions, "DatabaseReplicaHistory")
                 /\ ConditionOf(parents[P1].status.conditions,
                                "DatabaseReplicaHistory").status = "False"
                 /\ ConditionOf(parents[P1].status.conditions,
                                "DatabaseReplicaHistory").reason = "ReplicaDeleted"))

\* every child of that kind belongs to a stored parent that holds the finalizer
OwnersHold(f) ==
    \A n \in DOMAIN f :
        f[n].owner \in DOMAIN parents /\ parents[f[n].owner].finalizer

\* C38: in a pass that creates a child, the update that stores the finalizer,
\* if the pass made one, succeeded and came before every create (so a pass
\* whose finalizer update failed creates nothing); and in every reachable
\* state each workload, service, autoscaler and secret belongs to a parent
\* that holds the finalizer.
C38_FinalizerBeforeChildren ==
    /\ OwnersHold(sts)
    /\ OwnersHold(svc)
    /\ OwnersHold(hpa)
    /\ OwnersHold(secret)
    /\ pass.kind = "reconcile"
        => \A i \in DOMAIN pass.log :
              pass.log[i].verb = "create"
                => \A j \in DOMAIN pass.log :
                      (pass.log[j].verb = "update" /\ pass.log[j].kind = "parent")
                        => (j < i /\ pass.log[j].ok)

\* a pass stored the finalizer and then created the application workload
C38_Witness ==
    /\ pass.kind = "reconcile"
    /\ \E j \in DOMAIN pass.log :
          /\ pass.log[j].verb = "update"
          /\ pass.log[j].kind = "parent"
          /\ pass.log[j].ok
          /\ \E i \in DOMAIN pass.log :
                /\ j < i
                /\ pass.log[i].verb = "create"
                /\ pass.log[i].kind = "sts"
                /\ pass.log[i].ok
    /\ P1 \in DOMAIN sts
    /\ parents[P1].finalizer

====
